---- MODULE Spec2Model ----
(***************************************************************************)
(* AtomSpaceService of packages/ai-opencog: the in-memory atom store       *)
(* (add, query, remove, update, clear, export, import), reason(), and the  *)
(* learning methods (learn, learnFromFeedback, adaptToUser,                *)
(* learnUserBehavior, predictUserAction, personalize, getLearningStats).   *)
(*                                                                         *)
(* A JavaScript object is a function from its own property names to their  *)
(* values; a Map is the sequence of its entries in insertion order.        *)
(* Truth values and confidences are in thousandths (0.8 is 800).           *)
(***************************************************************************)
EXTENDS Integers, Sequences, FiniteSets, TLC

\* Bounds of the model.
MaxAtoms == 2
MaxNextId == 2

VARIABLES
    atoms,       \* Map<string, Atom>: sequence of [key, val] in insertion order
    nextAtomId,  \* counter behind generateAtomId
    entered,     \* history: the stored ids in the order they entered the store
    last,        \* history: the last call, [op, arg, ret, hit]
    phase,       \* position of the caller's export/clear/import script
    saved,       \* history: the store as it was when the script exported it
    exported,    \* the blob the script holds
    learningHistory,       \* LearningData[]
    adaptationStrategies,  \* Map<string, AdaptationStrategy>
    userBehaviorPatterns,  \* Map<string, UserBehaviorPattern[]>
    learningModels,        \* Map<string, LearningModel>
    nextModelId,           \* counter behind createLearningModel
    userPersonalization,   \* Map<string, Record<string, any>>
    learnCalls,            \* history: the number of calls of learn so far
    adapted,               \* history: the (user, domain) pairs an adaptation was asked for
    retrained,             \* history: model id -> its successful updateLearningModel calls
    inFlight               \* the learnFromFeedback calls that wait at an await

storeVars == <<atoms, nextAtomId, entered, phase, saved, exported>>
learnVars == <<learningHistory, adaptationStrategies, userBehaviorPatterns, learningModels,
               nextModelId, userPersonalization, learnCalls, adapted, retrained, inFlight>>
vars == <<storeVars, last, learnVars>>

----------------------------------------------------------------------------
\* JavaScript values

\* The value undefined of a string-typed property.
undefined == "#undefined"

StringFields == {"id", "type", "name"}
AtomFields == {"id", "type", "name", "truthValue", "attentionValue"}

\* o.f is not undefined (the property is missing or holds undefined otherwise).
Defined(o, f) == f \in DOMAIN o /\ (f \in StringFields => o[f] # undefined)

\* o.f is truthy: objects are, strings are unless empty.
Truthy(o, f) == Defined(o, f) /\ (f \in StringFields => o[f] # "")

\* o1.f1 === o2.f2
StrictEq(o1, f1, o2, f2) ==
    IF Defined(o1, f1) /\ Defined(o2, f2)
    THEN o1[f1] = o2[f2]
    ELSE ~Defined(o1, f1) /\ ~Defined(o2, f2)

\* { ...a, ...b }
Spread(a, b) ==
    [f \in DOMAIN a \cup DOMAIN b |-> IF f \in DOMAIN b THEN b[f] ELSE a[f]]

\* Two objects read the same on every Atom field.
SameContent(x, y) == \A f \in AtomFields : StrictEq(x, f, y, f)

----------------------------------------------------------------------------
\* Map<string, Atom>

MapKeys(m) == [i \in 1..Len(m) |-> m[i].key]
MapValues(m) == [i \in 1..Len(m) |-> m[i].val]
MapKeySet(m) == {m[i].key : i \in 1..Len(m)}
MapHas(m, k) == k \in MapKeySet(m)
MapIndex(m, k) == CHOOSE i \in 1..Len(m) : m[i].key = k
MapGet(m, k) == m[MapIndex(m, k)].val

\* A mutation of MapDelete: the entries after the deleted one go with it.
MapDeleteTruncates(m, k) == IF MapHas(m, k) THEN SubSeq(m, 1, MapIndex(m, k) - 1) ELSE m

\* Map.prototype.delete
MapDelete(m, k) == SelectSeq(m, LAMBDA e : e.key # k)

\* A mutation of MapSet: every set adds an entry, as a push on an array would.
MapSetAlwaysAppends(m, k, v) == Append(m, [key |-> k, val |-> v])

\* A mutation of MapSet: setting a stored key moves its entry to the end.
MapSetMovesToEnd(m, k, v) == Append(MapDelete(m, k), [key |-> k, val |-> v])

\* Map.prototype.set: a stored key keeps its position, a new key goes last.
MapSet(m, k, v) ==
    IF MapHas(m, k)
    THEN [m EXCEPT ![MapIndex(m, k)] = [key |-> k, val |-> v]]
    ELSE Append(m, [key |-> k, val |-> v])

----------------------------------------------------------------------------
\* Inputs

tvLow == [strength |-> 200, confidence |-> 200]
tvHigh == [strength |-> 900, confidence |-> 900]
tvMid == [strength |-> 500, confidence |-> 500]
avLow == [sti |-> 1, lti |-> 1, vlti |-> 1]
avMid == [sti |-> 5, lti |-> 5, vlti |-> 5]

conceptAtom ==
    [type |-> "ConceptNode", name |-> "n", truthValue |-> tvLow, attentionValue |-> avLow]
predicateAtom == [type |-> "PredicateNode", truthValue |-> tvHigh]

AtomContents == {conceptAtom, predicateAtom}
SuppliedIds == {"", "atom_1", "k"}
AtomInputs == AtomContents \cup {Spread(c, [id |-> i]) : c \in AtomContents, i \in SuppliedIds}

UpdateInputs ==
    { [name |-> "m", id |-> "z"], [name |-> undefined] }

IdInputs == {"atom_1", "atom_2", "k"}

PatternInputs ==
    { [type |-> "ConceptNode"],
      [type |-> "PredicateNode", name |-> "n"],
      [name |-> "n"],
      [name |-> ""],
      [truthValueThreshold |-> tvMid],
      [attentionThreshold |-> avMid],
      << >> }

----------------------------------------------------------------------------
\* JSON text: what JSON.parse makes of it (parses, value), a value being
\* [t |-> "null"], [t |-> "number"], [t |-> "string"], [t |-> "object", o |-> ...]
\* or [t |-> "array", a |-> <<...>>].

Unparseable == [parses |-> FALSE]
JsonText(v) == [parses |-> TRUE, value |-> v]
JsonNull == [t |-> "null"]
JsonNumber == [t |-> "number"]
JsonString == [t |-> "string"]
JsonArray(elems) == [t |-> "array", a |-> elems]

\* An object as JSON.stringify writes it: properties holding undefined are left out.
JsonObject(o) == [t |-> "object", o |-> [f \in {g \in DOMAIN o : Defined(o, g)} |-> o[f]]]

\* JSON.stringify(atomsArray, null, 2)
JSONstringify(atomsArray) ==
    JsonText(JsonArray([i \in 1..Len(atomsArray) |-> JsonObject(atomsArray[i])]))

BlobInputs ==
    { Unparseable,
      JsonText(JsonObject(conceptAtom)),
      JsonText(JsonString),
      JsonText(JsonArray(<< >>)),
      JsonText(JsonArray(<< JsonObject(Spread(conceptAtom, [id |-> "atom_1"])), JsonNull >>)),
      JsonText(JsonArray(<< JsonNumber, JsonObject(Spread(predicateAtom, [id |-> "k"])) >>)),
      JsonText(JsonArray(<< JsonObject(predicateAtom),
                            JsonObject(Spread(conceptAtom, [id |-> "atom_1"])) >>)),
      JsonText(JsonArray(<< JsonObject(Spread(conceptAtom, [id |-> "atom_1"])),
                            JsonObject(Spread(predicateAtom, [id |-> "atom_2"])) >>)) }

----------------------------------------------------------------------------
\* AtomSpaceService: the atom store

\* `atom_${this.nextAtomId++}`: the id made of the counter value n
generateAtomId(n) == "atom_" \o ToString(n)

\* A mutation of atomWithId: the atom is stored as it was given.
atomWithIdAsGiven(atom, atomId) == atom

\* { ...atom, id: atomId }
atomWithId(atom, atomId) == Spread(atom, [id |-> atomId])

\* A mutation of updatedAtom: the id of the updates is not overridden.
updatedAtomKeepsUpdatesId(existingAtom, updates, atomId) == Spread(existingAtom, updates)

\* A mutation of updatedAtom: the existing fields win over the updates.
updatedAtomExistingWins(existingAtom, updates, atomId) ==
    Spread(Spread(updates, existingAtom), [id |-> atomId])

\* { ...existingAtom, ...updates, id: atomId }
updatedAtom(existingAtom, updates, atomId) ==
    Spread(Spread(existingAtom, updates), [id |-> atomId])

matchesPattern(atom, pattern) ==
    IF Truthy(pattern, "type") /\ ~StrictEq(atom, "type", pattern, "type") THEN FALSE
    ELSE IF Truthy(pattern, "name") /\ ~StrictEq(atom, "name", pattern, "name") THEN FALSE
    ELSE TRUE

\* The loop of queryAtoms over this.atoms.values()
queryResults(m, pattern) == SelectSeq(MapValues(m), LAMBDA atom : matchesPattern(atom, pattern))

\* The loop of importAtomSpace from element i on: the map it leaves, and
\* whether reading atom.id threw (the element is null).
RECURSIVE importLoop(_, _, _)
importLoop(m, atomsArray, i) ==
    IF i > Len(atomsArray) THEN [atoms |-> m, threw |-> FALSE]
    ELSE LET atom == atomsArray[i] IN
         IF atom.t = "null" THEN [atoms |-> m, threw |-> TRUE]
         ELSE IF atom.t = "object" /\ Truthy(atom.o, "id")
              THEN importLoop(MapSet(m, atom.o.id, atom.o), atomsArray, i + 1)
              ELSE importLoop(m, atomsArray, i + 1)

\* The try block of importAtomSpace on the map m: JSON.parse throws on text
\* that does not parse and leaves m; otherwise the map is cleared, and for-of
\* throws on a value that is not iterable (a string iterates over its characters).
importOutcome(m, data) ==
    IF ~data.parses THEN [atoms |-> m, threw |-> TRUE]
    ELSE IF data.value.t = "array" THEN importLoop(<< >>, data.value.a, 1)
    ELSE IF data.value.t = "string" THEN [atoms |-> << >>, threw |-> FALSE]
    ELSE [atoms |-> << >>, threw |-> TRUE]

\* The query types of ReasoningQuery, and one outside them.
KnownTypes == {"code-analysis", "code-completion", "deductive", "inductive", "abductive"}
QueryTypes == KnownTypes \cup {"hybrid"}

\* A mutation of reasonResult: the default branch answers as deduction does.
reasonResultDefaultDeduces(query) ==
    [conclusion |-> << >>, confidence |-> 900, explanation |-> "Deductive reasoning applied",
     metadata |-> [reasoningType |-> "deductive"]]

\* The switch of reason (atomspace-service.ts) and the perform* methods it calls
reasonResult(query) ==
    CASE query.type = "code-analysis" ->
           [conclusion |-> << >>, confidence |-> 700,
            explanation |-> "Basic code analysis performed",
            metadata |-> [analysisType |-> "structural"]]
      [] query.type = "code-completion" ->
           [conclusion |-> << >>, confidence |-> 800,
            explanation |-> "Code completion suggestions generated",
            metadata |-> [completionType |-> "semantic"]]
      [] query.type = "deductive" ->
           [conclusion |-> << >>, confidence |-> 900,
            explanation |-> "Deductive reasoning applied",
            metadata |-> [reasoningType |-> "deductive"]]
      [] query.type = "inductive" ->
           [conclusion |-> << >>, confidence |-> 600,
            explanation |-> "Inductive reasoning applied",
            metadata |-> [reasoningType |-> "inductive"]]
      [] query.type = "abductive" ->
           [conclusion |-> << >>, confidence |-> 500,
            explanation |-> "Abductive reasoning applied",
            metadata |-> [reasoningType |-> "abductive"]]
      [] OTHER ->
           [conclusion |-> << >>, confidence |-> 0, explanation |-> "Unknown reasoning type"]

Ready == phase \in {"idle", "restored"}
ScriptIdle == phase' = "idle" /\ saved' = << >> /\ exported' = Unparseable

addAtom(atom) ==
    LET generated == ~Truthy(atom, "id")
        atomId == IF generated THEN generateAtomId(nextAtomId) ELSE atom.id
    IN  /\ Ready
        /\ generated => nextAtomId <= MaxNextId
        /\ MapHas(atoms, atomId) \/ Len(atoms) < MaxAtoms
        /\ atoms' = MapSet(atoms, atomId, atomWithId(atom, atomId))
        /\ nextAtomId' = IF generated THEN nextAtomId + 1 ELSE nextAtomId
        /\ entered' = IF MapHas(atoms, atomId) THEN entered ELSE Append(entered, atomId)
        /\ last' = [op |-> "add", arg |-> atom, ret |-> atomId, hit |-> MapHas(atoms, atomId)]
        /\ ScriptIdle
        /\ UNCHANGED learnVars

queryAtoms(pattern) ==
    /\ Ready
    /\ last' = [op |-> "query", arg |-> pattern, ret |-> queryResults(atoms, pattern),
                hit |-> FALSE]
    /\ ScriptIdle
    /\ UNCHANGED <<atoms, nextAtomId, entered>>
    /\ UNCHANGED learnVars

removeAtom(atomId) ==
    /\ Ready
    /\ atoms' = MapDelete(atoms, atomId)
    /\ entered' = SelectSeq(entered, LAMBDA k : k # atomId)
    /\ last' = [op |-> "remove", arg |-> atomId, ret |-> MapHas(atoms, atomId),
                hit |-> MapHas(atoms, atomId)]
    /\ ScriptIdle
    /\ UNCHANGED nextAtomId
    /\ UNCHANGED learnVars

updateAtom(atomId, updates) ==
    /\ Ready
    /\ IF ~MapHas(atoms, atomId)
       THEN /\ last' = [op |-> "update", arg |-> [atomId |-> atomId, updates |-> updates],
                        ret |-> FALSE, hit |-> FALSE]
            /\ UNCHANGED atoms
       ELSE /\ atoms' = MapSet(atoms, atomId, updatedAtom(MapGet(atoms, atomId), updates, atomId))
            /\ last' = [op |-> "update", arg |-> [atomId |-> atomId, updates |-> updates],
                        ret |-> TRUE, hit |-> TRUE]
    /\ ScriptIdle
    /\ UNCHANGED <<nextAtomId, entered>>
    /\ UNCHANGED learnVars

reason(query) ==
    /\ Ready
    /\ last' = [op |-> "reason", arg |-> query, ret |-> reasonResult(query), hit |-> FALSE]
    /\ ScriptIdle
    /\ UNCHANGED <<atoms, nextAtomId, entered>>
    /\ UNCHANGED learnVars

getAtomSpaceSize ==
    /\ Ready
    /\ last' = [op |-> "size", arg |-> << >>, ret |-> Len(atoms), hit |-> FALSE]
    /\ ScriptIdle
    /\ UNCHANGED <<atoms, nextAtomId, entered>>
    /\ UNCHANGED learnVars

clearAtomSpace ==
    /\ phase \in {"idle", "restored", "exported"}
    /\ atoms' = << >>
    /\ nextAtomId' = 1
    /\ entered' = << >>
    /\ last' = [op |-> "clear", arg |-> << >>, ret |-> << >>, hit |-> FALSE]
    /\ IF phase = "exported"
       THEN phase' = "cleared" /\ UNCHANGED <<saved, exported>>
       ELSE ScriptIdle
    /\ UNCHANGED learnVars

exportAtomSpace ==
    /\ Ready
    /\ exported' = JSONstringify(MapValues(atoms))
    /\ saved' = atoms
    /\ phase' = "exported"
    /\ last' = [op |-> "export", arg |-> << >>, ret |-> JSONstringify(MapValues(atoms)),
                hit |-> FALSE]
    /\ UNCHANGED <<atoms, nextAtomId, entered>>
    /\ UNCHANGED learnVars

importAtomSpace(data) ==
    LET outcome == importOutcome(atoms, data)
    IN  /\ phase \in {"idle", "restored", "cleared"}
        /\ Len(outcome.atoms) <= MaxAtoms
        /\ atoms' = outcome.atoms
        /\ entered' = IF data.parses THEN MapKeys(outcome.atoms) ELSE entered
        /\ last' = [op |-> "import", arg |-> data,
                    ret |-> IF outcome.threw THEN "Failed to import AtomSpace" ELSE "ok",
                    hit |-> FALSE]
        /\ IF phase = "cleared"
           THEN phase' = "restored" /\ UNCHANGED <<saved, exported>>
           ELSE ScriptIdle
        /\ UNCHANGED nextAtomId
        /\ UNCHANGED learnVars

\* The blobs import is called with: the one the script exported, or any input.
ImportData == IF phase = "cleared" THEN {exported} ELSE BlobInputs

Init ==
    /\ atoms = << >>
    /\ nextAtomId = 1
    /\ entered = << >>
    /\ last = [op |-> "new", arg |-> << >>, ret |-> << >>, hit |-> FALSE]
    /\ phase = "idle"
    /\ saved = << >>
    /\ exported = Unparseable
    /\ learningHistory = << >>
    /\ adaptationStrategies = << >>
    /\ userBehaviorPatterns = << >>
    /\ learningModels = << >>
    /\ nextModelId = 1
    /\ userPersonalization = << >>
    /\ learnCalls = 0
    /\ adapted = {}
    /\ retrained = << >>
    /\ inFlight = << >>

Next ==
    \/ \E atom \in AtomInputs : addAtom(atom)
    \/ \E pattern \in PatternInputs : queryAtoms(pattern)
    \/ \E atomId \in IdInputs : removeAtom(atomId)
    \/ \E atomId \in IdInputs, updates \in UpdateInputs : updateAtom(atomId, updates)
    \/ \E type \in QueryTypes : reason([type |-> type])
    \/ getAtomSpaceSize
    \/ clearAtomSpace
    \/ exportAtomSpace
    \/ \E data \in ImportData : importAtomSpace(data)

Spec == Init /\ [][Next]_vars

TypeOK ==
    /\ nextAtomId \in 1..(MaxNextId + 1)
    /\ Len(atoms) <= MaxAtoms
    /\ phase \in {"idle", "exported", "cleared", "restored"}

----------------------------------------------------------------------------
\* AtomSpaceService with reasoning engines (ai-opencog-backend-module.ts)

\* What a call gives: it throws, or it returns a result.
Threw == [threw |-> TRUE]
Returned(result) == [threw |-> FALSE, result |-> result]

inferredAtom == [type |-> "ConceptNode", name |-> "inferred"]
matchedAtom == [type |-> "PatternNode", name |-> "matched"]

\* plnEngine.reason(query)
PlnOutcomes ==
    { Threw,
      Returned([conclusion |-> << >>, confidence |-> 0, explanation |-> ""]),
      Returned([conclusion |-> <<inferredAtom>>, confidence |-> 900,
                explanation |-> "PLN inference"]) }

\* patternEngine.reason(query)
PatternOutcomes ==
    { Threw,
      Returned([conclusion |-> << >>, confidence |-> 0, explanation |-> ""]),
      Returned([conclusion |-> <<matchedAtom>>, confidence |-> 600,
                explanation |-> "Pattern match"]) }

\* codeAnalysisEngine.reason(query)
CodeAnalysisOutcomes ==
    { Threw,
      Returned([conclusion |-> << >>, confidence |-> 700, explanation |-> "Code analysis",
                metadata |-> [reasoningType |-> "code-analysis"]]) }

\* patternEngine.recognizePatterns(input)
RecognizeOutcomes ==
    { Threw,
      Returned(<< >>),
      Returned(<< [pattern |-> "p", confidence |-> 0] >>),
      Returned(<< [pattern |-> "p", confidence |-> 0], [pattern |-> "q", confidence |-> 300] >>),
      Returned(<< [pattern |-> "p", confidence |-> 500], [pattern |-> "q", confidence |-> 900] >>) }

EngineRuns ==
    [pln : PlnOutcomes, pattern : PatternOutcomes,
     codeAnalysis : CodeAnalysisOutcomes, recognize : RecognizeOutcomes]

EngineQueries ==
    {[type |-> t] : t \in QueryTypes}
        \cup { [type |-> "code-completion", context |-> [preferPatterns |-> TRUE]],
               [type |-> "code-completion",
                context |-> [preferReasoning |-> TRUE, language |-> "typescript"]] }

\* query.context || {}
contextOf(query) == IF "context" \in DOMAIN query THEN query.context ELSE << >>

\* context.flag is truthy
Flag(context, flag) == flag \in DOMAIN context /\ context[flag]

\* x || 0.5 of a number
OrHalf(x) == IF x = 0 THEN 500 ELSE x

calculateContextRelevance(suggestion, context) ==
    IF suggestion.metadata.suggestionType = "pattern-based" /\ Flag(context, "preferPatterns")
    THEN 1000
    ELSE IF suggestion.metadata.suggestionType = "reasoning-based"
              /\ Flag(context, "preferReasoning")
         THEN 1000
         ELSE 500

\* baseScore + confidenceBonus + contextBonus, in units of 1/10000
calculateSuggestionScore(suggestion, context) ==
    10 * OrHalf(suggestion.truthValue.strength)
        + 3 * OrHalf(suggestion.truthValue.confidence)
        + 2 * calculateContextRelevance(suggestion, context)

\* The sorted array with x put after the elements that do not score less.
insertByScore(sorted, x, context) ==
    LET ahead == { i \in 1..Len(sorted) :
                     calculateSuggestionScore(sorted[i], context)
                         >= calculateSuggestionScore(x, context) }
        k == Cardinality(ahead)
    IN  SubSeq(sorted, 1, k) \o <<x>> \o SubSeq(sorted, k + 1, Len(sorted))

\* suggestions.sort((a, b) => scoreB - scoreA): a stable sort, highest score first
RECURSIVE rankCompletionSuggestions(_, _)
rankCompletionSuggestions(suggestions, context) ==
    IF suggestions = << >> THEN << >>
    ELSE insertByScore(
             rankCompletionSuggestions(SubSeq(suggestions, 1, Len(suggestions) - 1), context),
             suggestions[Len(suggestions)], context)

RECURSIVE sumConfidence(_)
sumConfidence(suggestions) ==
    IF suggestions = << >> THEN 0
    ELSE suggestions[1].truthValue.confidence + sumConfidence(Tail(suggestions))

Min(a, b) == IF a <= b THEN a ELSE b

\* Math.min(0.9, avgConfidence * 0.9), rounded down to a thousandth
calculateCompletionConfidence(suggestions) ==
    IF Len(suggestions) = 0 THEN 0
    ELSE Min(900, (sumConfidence(suggestions) * 9) \div (Len(suggestions) * 10))

generatePatternBasedCompletions(patterns) ==
    [i \in 1..Len(patterns) |->
        [type |-> "CompletionSuggestion", name |-> "completion_pattern",
         truthValue |-> [strength |-> patterns[i].confidence, confidence |-> 800],
         metadata |-> [suggestionType |-> "pattern-based"]]]

generateReasoningBasedCompletions(result) ==
    [i \in 1..Len(result.conclusion) |->
        [type |-> "CompletionSuggestion", name |-> "completion_reasoning",
         truthValue |-> [strength |-> result.confidence, confidence |-> 700],
         metadata |-> [suggestionType |-> "reasoning-based"]]]

\* performAdvancedCodeCompletion: it throws when recognizePatterns or the
\* deductive pass of the PLN engine throws.
performAdvancedCodeCompletion(query, run) ==
    IF run.recognize.threw \/ run.pln.threw THEN Threw
    ELSE LET context == contextOf(query)
             allSuggestions == generatePatternBasedCompletions(run.recognize.result)
                                   \o generateReasoningBasedCompletions(run.pln.result)
             rankedSuggestions == rankCompletionSuggestions(allSuggestions, context)
         IN  Returned(
               [conclusion |-> SubSeq(rankedSuggestions, 1, Min(10, Len(rankedSuggestions))),
                confidence |-> calculateCompletionConfidence(rankedSuggestions),
                explanation |-> "Generated " \o ToString(Len(rankedSuggestions))
                                  \o " code completion suggestions using pattern matching and cognitive reasoning",
                metadata |-> [reasoningType |-> "code-completion",
                              contextType |-> IF "language" \in DOMAIN context
                                              THEN context.language ELSE "unknown",
                              suggestionCount |-> Len(rankedSuggestions)]])

RECURSIVE concatConclusions(_)
concatConclusions(results) ==
    IF results = << >> THEN << >>
    ELSE results[1].conclusion \o concatConclusions(Tail(results))

RECURSIVE totalConfidence(_)
totalConfidence(results) ==
    IF results = << >> THEN 0 ELSE results[1].confidence + totalConfidence(Tail(results))

\* explanations.join('; ')
RECURSIVE joinExplanations(_)
joinExplanations(results) ==
    IF results = << >> THEN ""
    ELSE IF Len(results) = 1 THEN results[1].explanation
    ELSE results[1].explanation \o "; " \o joinExplanations(Tail(results))

\* A mutation of combineReasoningResults: the confidences are added up.
combineReasoningResultsSums(results, query) ==
    IF Len(results) = 0
    THEN [conclusion |-> << >>, confidence |-> 0,
          explanation |-> "No reasoning engines provided results"]
    ELSE [conclusion |-> concatConclusions(results),
          confidence |-> totalConfidence(results),
          explanation |-> "Hybrid reasoning (" \o ToString(Len(results)) \o " engines): "
                            \o joinExplanations(results),
          metadata |-> [reasoningType |-> "hybrid", engineCount |-> Len(results),
                        originalQuery |-> query.type]]

\* The mean is rounded down to a thousandth.
combineReasoningResults(results, query) ==
    IF Len(results) = 0
    THEN [conclusion |-> << >>, confidence |-> 0,
          explanation |-> "No reasoning engines provided results"]
    ELSE [conclusion |-> concatConclusions(results),
          confidence |-> totalConfidence(results) \div Len(results),
          explanation |-> "Hybrid reasoning (" \o ToString(Len(results)) \o " engines): "
                            \o joinExplanations(results),
          metadata |-> [reasoningType |-> "hybrid", engineCount |-> Len(results),
                        originalQuery |-> query.type]]

\* A mutation of performHybridReasoning: a failing PLN engine ends the attempt.
performHybridReasoningAbortsOnFailure(query, run) ==
    IF run.pln.threw THEN combineReasoningResults(<< >>, query)
    ELSE combineReasoningResults(
             <<run.pln.result>>
                 \o (IF run.pattern.threw THEN << >> ELSE <<run.pattern.result>>), query)

performHybridReasoning(query, run) ==
    LET plnResults == IF run.pln.threw THEN << >> ELSE <<run.pln.result>>
        patternResults == IF run.pattern.threw THEN << >> ELSE <<run.pattern.result>>
    IN  combineReasoningResults(plnResults \o patternResults, query)

\* reason of the engine version: the switch inside try, and the catch
reasonOutcome(query, run) ==
    LET attempt ==
            CASE query.type = "code-analysis" -> run.codeAnalysis
              [] query.type = "code-completion" -> performAdvancedCodeCompletion(query, run)
              [] query.type \in {"deductive", "inductive", "abductive"} -> run.pln
              [] OTHER -> Returned(performHybridReasoning(query, run))
    IN  IF attempt.threw
        THEN [conclusion |-> << >>, confidence |-> 0,
              explanation |-> "Reasoning failed: Error",
              metadata |-> [error |-> TRUE, reasoningType |-> query.type]]
        ELSE attempt.result

reasonWithEngines(query, run) ==
    /\ last' = [op |-> "reasonWithEngines", arg |-> [query |-> query, run |-> run],
                ret |-> reasonOutcome(query, run), hit |-> FALSE]
    /\ UNCHANGED <<atoms, nextAtomId, entered, phase, saved, exported>>
    /\ UNCHANGED learnVars

NextEngine == \E query \in EngineQueries, run \in EngineRuns : reasonWithEngines(query, run)

SpecEngine == Init /\ [][NextEngine]_vars

----------------------------------------------------------------------------
\* AtomSpaceService: learning and adaptation (atomspace-service.ts)
\*
\* A method that runs inside another one is an operator from the fields of
\* the service, as a record, to the fields it leaves. Date.now() reads as the
\* one instant DateNow. Every input of a LearningData is an object or absent.

DateNow == 1

\* The fields of the service.
this ==
    [atoms |-> atoms, nextAtomId |-> nextAtomId, learningHistory |-> learningHistory,
     adaptationStrategies |-> adaptationStrategies,
     userBehaviorPatterns |-> userBehaviorPatterns, learningModels |-> learningModels,
     nextModelId |-> nextModelId, userPersonalization |-> userPersonalization]

\* o.f is a non-empty string.
HasText(o, f) == f \in DOMAIN o /\ o[f] # ""

\* data.context?.userId is truthy
HasUserId(data) == "context" \in DOMAIN data /\ HasText(data.context, "userId")

\* context.currentTask || 'general'
domainOf(context) == IF HasText(context, "currentTask") THEN context.currentTask ELSE "general"

\* this.addAtom(atom) called by another method
addAtomIn(s, atom) ==
    LET generated == ~Truthy(atom, "id")
        atomId == IF generated THEN generateAtomId(s.nextAtomId) ELSE atom.id
    IN  [s EXCEPT !.atoms = MapSet(@, atomId, atomWithId(atom, atomId)),
                  !.nextAtomId = IF generated THEN @ + 1 ELSE @]

\* `session_${Date.now()}_${randomPart}`
generateSessionId == "session_" \o ToString(DateNow) \o "_random"

determinePriority(feedback) ==
    IF feedback.rating <= 2 THEN "high"
    ELSE IF feedback.rating = 3 THEN "medium"
    ELSE IF feedback.helpful = FALSE THEN "high"
    ELSE "low"

\* JSON.stringify(input) === JSON.stringify(expectedOutput) ? 1.0 : 0.5
calculatePredictionAccuracy(input, expectedOutput) == IF input = expectedOutput THEN 1000 ELSE 500

\* Math.max(-1, Math.min(1, reward)), in thousandths
calculateReward(feedback) ==
    LET base == (feedback.rating - 3) * 500
        helped == IF feedback.helpful THEN 200 ELSE 0
        outcome == IF "outcome" \in DOMAIN feedback
                   THEN (IF feedback.outcome = "accepted" THEN 300
                         ELSE IF feedback.outcome = "rejected" THEN -300 ELSE 0)
                   ELSE 0
        reward == base + helped + outcome
    IN  IF reward > 1000 THEN 1000 ELSE IF reward < -1000 THEN -1000 ELSE reward

\* The model object whose id is the given one takes the new fields, under
\* every key of the table that holds that object.
mutateModel(models, id, fields) ==
    [i \in 1..Len(models) |->
        IF models[i].val.id = id
        THEN [key |-> models[i].key, val |-> Spread(models[i].val, fields)]
        ELSE models[i]]

\* The model createLearningModel makes from the counter value n
newLearningModel(n, type, parameters) ==
    [id |-> "model_" \o ToString(n), type |-> type, version |-> 1,
     parameters |-> parameters, trainingData |-> << >>,
     createdAt |-> DateNow, updatedAt |-> DateNow]

\* A mutation of createLearningModelIn: the counter stays where it is.
createLearningModelReusesId(s, type, parameters) ==
    LET model == newLearningModel(s.nextModelId, type, parameters)
        modelAtom == [type |-> "LearningModelNode", name |-> "model_" \o model.id,
                      truthValue |-> [strength |-> 500, confidence |-> 500],
                      outgoing |-> << >>]
    IN  addAtomIn([s EXCEPT !.learningModels = MapSet(@, model.id, model)], modelAtom)

createLearningModelIn(s, type, parameters) ==
    LET model == newLearningModel(s.nextModelId, type, parameters)
        modelAtom == [type |-> "LearningModelNode", name |-> "model_" \o model.id,
                      truthValue |-> [strength |-> 500, confidence |-> 500],
                      outgoing |-> << >>]
    IN  addAtomIn([s EXCEPT !.learningModels = MapSet(@, model.id, model),
                            !.nextModelId = @ + 1],
                  modelAtom)

\* model.accuracy || 0.5
accuracyOrHalf(model) ==
    IF "accuracy" \in DOMAIN model /\ model.accuracy # 0 THEN model.accuracy ELSE 500

\* (currentAccuracy * 0.9) + (score * 0.1), to the thousandth below
updateUserModelIn(s, userId, type, score) ==
    LET modelId == "user_" \o userId \o "_" \o type
        found == MapHas(s.learningModels, modelId)
        s1 == IF found THEN s
              ELSE createLearningModelIn(s, "user_" \o type, [userId |-> userId])
        model == IF found THEN MapGet(s.learningModels, modelId)
                 ELSE newLearningModel(s.nextModelId, "user_" \o type, [userId |-> userId])
        accuracy == (accuracyOrHalf(model) * 9 + score) \div 10
        changed == [accuracy |-> accuracy, updatedAt |-> DateNow]
    IN  [s1 EXCEPT !.learningModels =
            MapSet(mutateModel(@, model.id, changed), modelId, Spread(model, changed))]

\* A mutation of updatePersonalizationModelIn: the new preferences replace
\* the stored ones.
updatePersonalizationModelReplaces(s, userId, preferences) ==
    [s EXCEPT !.userPersonalization =
        MapSet(@, userId, Spread(preferences, [lastUpdated |-> DateNow]))]

\* { ...existing, ...preferences, lastUpdated: Date.now() }
updatePersonalizationModelIn(s, userId, preferences) ==
    LET existing == IF MapHas(s.userPersonalization, userId)
                    THEN MapGet(s.userPersonalization, userId) ELSE << >>
        updated == Spread(Spread(existing, preferences), [lastUpdated |-> DateNow])
    IN  [s EXCEPT !.userPersonalization = MapSet(@, userId, updated)]

\* this.userBehaviorPatterns.get(userId) || []
patternsOf(s, userId) ==
    IF MapHas(s.userBehaviorPatterns, userId) THEN MapGet(s.userBehaviorPatterns, userId)
    ELSE << >>

\* The pattern updateBehaviorPatterns makes for a new action; a context that
\* is undefined leaves no context field.
newBehaviorPattern(userId, action, input) ==
    Spread([id |-> "pattern_" \o userId \o "_" \o ToString(DateNow), userId |-> userId,
            pattern |-> action, frequency |-> 1, confidence |-> 500,
            discovered |-> DateNow, lastSeen |-> DateNow],
           IF "context" \in DOMAIN input THEN [context |-> input.context] ELSE << >>)

\* A mutation of updateBehaviorPatternsIn: an action that recurs starts anew.
updateBehaviorPatternsStartsAnew(s, userId, action, input) ==
    LET userPatterns == patternsOf(s, userId)
        others == SelectSeq(userPatterns, LAMBDA p : p.pattern # action)
    IN  [s EXCEPT !.userBehaviorPatterns =
            MapSet(@, userId, Append(others, newBehaviorPattern(userId, action, input)))]

\* A mutation of updateBehaviorPatternsIn: the confidence grows without a cap.
updateBehaviorPatternsUncapped(s, userId, action, input) ==
    LET userPatterns == patternsOf(s, userId)
        found == {i \in 1..Len(userPatterns) : userPatterns[i].pattern = action}
        updated ==
            IF found # {}
            THEN LET i == CHOOSE j \in found : \A k \in found : j <= k
                 IN  [userPatterns EXCEPT
                        ![i] = [@ EXCEPT !.frequency = @ + 1,
                                         !.lastSeen = DateNow,
                                         !.confidence = @ + 10]]
            ELSE Append(userPatterns, newBehaviorPattern(userId, action, input))
    IN  [s EXCEPT !.userBehaviorPatterns = MapSet(@, userId, updated)]

\* updateBehaviorPatterns; the context comes as the field "context" of input,
\* which is missing when the context is undefined.
updateBehaviorPatternsIn(s, userId, action, input) ==
    LET userPatterns == patternsOf(s, userId)
        found == {i \in 1..Len(userPatterns) : userPatterns[i].pattern = action}
        updated ==
            IF found # {}
            THEN LET i == CHOOSE j \in found : \A k \in found : j <= k
                 IN  [userPatterns EXCEPT
                        ![i] = [@ EXCEPT !.frequency = @ + 1,
                                         !.lastSeen = DateNow,
                                         !.confidence = Min(1000, @ + 10)]]
            ELSE Append(userPatterns, newBehaviorPattern(userId, action, input))
    IN  [s EXCEPT !.userBehaviorPatterns = MapSet(@, userId, updated)]

\* this.learningHistory.filter(item => item.context?.userId === userId)
userHistoryOf(s, userId) ==
    SelectSeq(s.learningHistory,
              LAMBDA item : "context" \in DOMAIN item /\ "userId" \in DOMAIN item.context
                              /\ item.context.userId = userId)

\* h.feedback?.helpful is truthy
helpfulFeedback(h) == "feedback" \in DOMAIN h /\ h.feedback.helpful

determineExperienceLevel(history) ==
    LET totalActions == Len(history)
        helped == Len(SelectSeq(history, helpfulFeedback))
    IN  IF totalActions < 10 THEN "beginner"
        ELSE IF totalActions < 50 THEN "intermediate"
        ELSE IF helped * 10 > totalActions * 8 THEN "expert"
        ELSE "advanced"

\* The tasks of the history as the keys of workflows, each with its count.
identifyPreferredWorkflow(history) ==
    LET tasked == SelectSeq(history,
                            LAMBDA item : "context" \in DOMAIN item
                                            /\ HasText(item.context, "currentTask"))
        tasks == {tasked[i].context.currentTask : i \in 1..Len(tasked)}
    IN  [t \in tasks |-> Len(SelectSeq(tasked, LAMBDA item : item.context.currentTask = t))]

\* The tasks of the records whose feedback is not helpful, each once, in
\* the order of their first record.
RECURSIVE identifyOptimizationAreas(_)
identifyOptimizationAreas(history) ==
    IF history = << >> THEN << >>
    ELSE LET areas == identifyOptimizationAreas(SubSeq(history, 1, Len(history) - 1))
             item == history[Len(history)]
         IN  IF /\ "feedback" \in DOMAIN item /\ ~item.feedback.helpful
                /\ "context" \in DOMAIN item /\ HasText(item.context, "currentTask")
                /\ \A i \in 1..Len(areas) : areas[i] # item.context.currentTask
             THEN Append(areas, item.context.currentTask)
             ELSE areas

\* The history length above which analyzeUserData computes recommendations.
SufficientHistory == 10

analyzeUserData(s, userId, domain, data) ==
    LET userHistory == userHistoryOf(s, userId)
    IN  IF Len(userHistory) > SufficientHistory
        THEN [recommendations |->
                [experienceLevel |-> determineExperienceLevel(userHistory),
                 preferredWorkflow |-> identifyPreferredWorkflow(userHistory),
                 optimizationAreas |-> identifyOptimizationAreas(userHistory)],
              confidence |-> 800]
        ELSE [recommendations |-> << >>, confidence |-> 500]

calculateEffectiveness(strategy, analysis) ==
    IF analysis.confidence > 700 THEN Min(1000, strategy.effectiveness + 50)
    ELSE strategy.effectiveness

\* `${userId}_${domain}`
strategyIdOf(userId, domain) == userId \o "_" \o domain

\* The strategy adaptToUser stores and returns
adaptedStrategy(s, userId, domain, data) ==
    LET strategyId == strategyIdOf(userId, domain)
        strategy == IF MapHas(s.adaptationStrategies, strategyId)
                    THEN MapGet(s.adaptationStrategies, strategyId)
                    ELSE [id |-> strategyId, userId |-> userId, domain |-> domain,
                          strategy |-> << >>, effectiveness |-> 500,
                          lastUpdated |-> DateNow]
        analysis == analyzeUserData(s, userId, domain, data)
    IN  [strategy EXCEPT !.strategy = Spread(@, analysis.recommendations),
                         !.effectiveness = calculateEffectiveness(strategy, analysis),
                         !.lastUpdated = DateNow]

adaptToUserIn(s, userId, domain, data) ==
    LET strategy == adaptedStrategy(s, userId, domain, data)
        adaptationAtom ==
            [type |-> "AdaptationNode", name |-> "adaptation_" \o userId \o "_" \o domain,
             truthValue |-> [strength |-> strategy.effectiveness, confidence |-> 800],
             outgoing |-> << >>]
    IN  addAtomIn([s EXCEPT !.adaptationStrategies =
                                MapSet(@, strategyIdOf(userId, domain), strategy)],
                  adaptationAtom)

\* A mutation of updateAdaptationFromFeedbackIn: the nudge is not clamped.
updateAdaptationUnclamped(s, userId, feedback, context) ==
    LET strategyId == strategyIdOf(userId, domainOf(context))
    IN  IF MapHas(s.adaptationStrategies, strategyId)
        THEN LET strategy == MapGet(s.adaptationStrategies, strategyId)
             IN  [s EXCEPT !.adaptationStrategies =
                     MapSet(@, strategy.id,
                            [strategy EXCEPT
                               !.effectiveness = @ + (IF feedback.helpful THEN 100 ELSE -100),
                               !.lastUpdated = DateNow])]
        ELSE s

updateAdaptationFromFeedbackIn(s, userId, feedback, context) ==
    LET strategyId == strategyIdOf(userId, domainOf(context))
    IN  IF MapHas(s.adaptationStrategies, strategyId)
        THEN LET strategy == MapGet(s.adaptationStrategies, strategyId)
                 adjustmentFactor == IF feedback.helpful THEN 100 ELSE -100
                 effectiveness ==
                     LET e == strategy.effectiveness + adjustmentFactor
                     IN  IF e > 1000 THEN 1000 ELSE IF e < 0 THEN 0 ELSE e
             IN  [s EXCEPT !.adaptationStrategies =
                     MapSet(@, strategy.id,
                            [strategy EXCEPT !.effectiveness = effectiveness,
                                             !.lastUpdated = DateNow])]
        ELSE s

learningAtom ==
    [type |-> "LearningRecord", name |-> "learning_" \o ToString(DateNow),
     truthValue |-> [strength |-> 800, confidence |-> 600], outgoing |-> << >>]

\* { ...data, timestamp: data.timestamp || Date.now(),
\*   sessionId: data.sessionId || this.generateSessionId() }
enhancedLearningData(data) ==
    Spread(data,
           [timestamp |-> IF "timestamp" \in DOMAIN data /\ data.timestamp # 0
                          THEN data.timestamp ELSE DateNow,
            sessionId |-> IF HasText(data, "sessionId")
                          THEN data.sessionId ELSE generateSessionId])

processSupervisedLearning(s, data) ==
    IF "expectedOutput" \in DOMAIN data /\ HasUserId(data)
    THEN updateUserModelIn(s, data.context.userId, "supervised",
                           calculatePredictionAccuracy(data.input, data.expectedOutput))
    ELSE s

\* extractPatterns finds one pattern in an input that is an object.
processUnsupervisedLearning(s, data) ==
    IF "input" \in DOMAIN data /\ HasUserId(data)
    THEN updateUserModelIn(s, data.context.userId, "unsupervised", 100)
    ELSE s

processReinforcementLearning(s, data) ==
    IF "feedback" \in DOMAIN data /\ HasUserId(data)
    THEN updateUserModelIn(s, data.context.userId, "reinforcement",
                           calculateReward(data.feedback))
    ELSE s

processPersonalizationLearning(s, data) ==
    IF HasUserId(data)
    THEN updatePersonalizationModelIn(s, data.context.userId,
                                      IF "input" \in DOMAIN data THEN data.input ELSE << >>)
    ELSE s

processBehavioralLearning(s, data) ==
    IF HasUserId(data) /\ "input" \in DOMAIN data /\ HasText(data.input, "action")
    THEN updateBehaviorPatternsIn(s, data.context.userId, data.input.action, data.input)
    ELSE s

processAdaptiveLearning(s, data) ==
    IF HasUserId(data)
    THEN adaptToUserIn(s, data.context.userId, domainOf(data.context),
                       IF "input" \in DOMAIN data THEN data.input ELSE << >>)
    ELSE s

\* A mutation of learnIn: the history keeps only the latest record.
learnInKeepsLatest(s, data) ==
    addAtomIn([s EXCEPT !.learningHistory = <<enhancedLearningData(data)>>], learningAtom)

\* learn: the record is pushed, the switch on data.type runs, the atom is added.
learnIn(s, data) ==
    LET enhanced == enhancedLearningData(data)
        s1 == [s EXCEPT !.learningHistory = Append(@, enhanced)]
        s2 == CASE data.type = "supervised" -> processSupervisedLearning(s1, enhanced)
                [] data.type = "unsupervised" -> processUnsupervisedLearning(s1, enhanced)
                [] data.type = "reinforcement" -> processReinforcementLearning(s1, enhanced)
                [] data.type = "personalization" -> processPersonalizationLearning(s1, enhanced)
                [] data.type = "behavioral" -> processBehavioralLearning(s1, enhanced)
                [] data.type = "adaptive" -> processAdaptiveLearning(s1, enhanced)
                [] OTHER -> s1
    IN  addAtomIn(s2, learningAtom)

\* The LearningData learnFromFeedback makes
feedbackData(feedback, context) ==
    [type |-> "supervised", input |-> [feedback |-> feedback, context |-> context],
     feedback |-> feedback, context |-> context, timestamp |-> DateNow,
     priority |-> determinePriority(feedback)]

learnFromFeedbackIn(s, feedback, context) ==
    LET s1 == learnIn(s, feedbackData(feedback, context))
    IN  IF HasText(context, "userId")
        THEN updateAdaptationFromFeedbackIn(s1, context.userId, feedback, context)
        ELSE s1

\* The LearningData learnUserBehavior makes; input is { action, context }
\* with no context field when the context is undefined.
behaviorData(userId, input) ==
    [type |-> "behavioral", input |-> input,
     context |-> Spread([userId |-> userId],
                        IF "context" \in DOMAIN input THEN input.context ELSE << >>),
     timestamp |-> DateNow]

learnUserBehaviorIn(s, userId, input) ==
    updateBehaviorPatternsIn(learnIn(s, behaviorData(userId, input)),
                             userId, input.action, input)

personalizeIn(s, userId, preferences) ==
    LET s1 == updatePersonalizationModelIn(s, userId, preferences)
    IN  learnIn(s1, [type |-> "personalization", input |-> preferences,
                     context |-> [userId |-> userId], timestamp |-> DateNow])

\* Object.keys of both contexts, the keys they share, the share that agree
\* over Math.max(keys1.length, keys2.length): [num, den], 0 as [0, 1].
calculateContextSimilarity(context1, context2) ==
    LET commonKeys == DOMAIN context1 \cap DOMAIN context2
        agreeing == {key \in commonKeys : context1[key] = context2[key]}
        longest == IF Cardinality(DOMAIN context1) >= Cardinality(DOMAIN context2)
                   THEN Cardinality(DOMAIN context1) ELSE Cardinality(DOMAIN context2)
    IN  IF commonKeys = {} THEN [num |-> 0, den |-> 1]
        ELSE [num |-> Cardinality(agreeing), den |-> longest]

\* b.confidence - a.confidence of the sort: a does not come after b
notBelow(a, b) == a.confidence.num * b.confidence.den >= b.confidence.num * a.confidence.den

\* The sorted array with x put after the predictions that are not below it.
insertPrediction(sorted, x) ==
    LET k == Cardinality({i \in 1..Len(sorted) : notBelow(sorted[i], x)})
    IN  SubSeq(sorted, 1, k) \o <<x>> \o SubSeq(sorted, k + 1, Len(sorted))

\* A mutation of sortPredictions: the predictions stay in the order of the patterns.
sortPredictionsKeepsOrder(predictions) == predictions

\* predictions.sort((a, b) => b.confidence - a.confidence): stable, highest first
RECURSIVE sortPredictions(_)
sortPredictions(predictions) ==
    IF predictions = << >> THEN << >>
    ELSE insertPrediction(sortPredictions(SubSeq(predictions, 1, Len(predictions) - 1)),
                          predictions[Len(predictions)])

\* slice(0, 5) of predictUserAction
PredictionLimit == 5

\* predictUserAction: a confidence is the fraction [num, den] of similarity
\* times pattern.confidence, in thousandths.
predictions(s, userId, holder) ==
    LET patterns == patternsOf(s, userId)
        similarity(p) ==
            IF "context" \in DOMAIN p /\ "context" \in DOMAIN holder
            THEN calculateContextSimilarity(p.context, holder.context)
            ELSE [num |-> 0, den |-> 1]
        candidates == SelectSeq(patterns,
                                LAMBDA p : 2 * similarity(p).num > similarity(p).den)
        made == [i \in 1..Len(candidates) |->
                    [action |-> candidates[i].pattern,
                     confidence |-> [num |-> similarity(candidates[i]).num
                                               * candidates[i].confidence,
                                     den |-> similarity(candidates[i]).den]]]
        sorted == sortPredictions(made)
    IN  SubSeq(sorted, 1, Min(PredictionLimit, Len(sorted)))

getLearningStatsOf(s) ==
    [totalLearningRecords |-> Len(s.learningHistory),
     modelAccuracy |->
        [id \in MapKeySet(s.learningModels) |->
            IF "accuracy" \in DOMAIN MapGet(s.learningModels, id)
            THEN MapGet(s.learningModels, id).accuracy ELSE 0],
     userAdaptations |-> Len(s.adaptationStrategies),
     behaviorPatterns |->
        LET RECURSIVE sum(_)
            sum(i) == IF i = 0 THEN 0
                      ELSE sum(i - 1) + Len(s.userBehaviorPatterns[i].val)
        IN  sum(Len(s.userBehaviorPatterns))]

\* The service takes the fields of s.
takes(s) ==
    /\ atoms' = s.atoms
    /\ nextAtomId' = s.nextAtomId
    /\ entered' = entered \o SelectSeq(MapKeys(s.atoms), LAMBDA k : ~MapHas(atoms, k))
    /\ learningHistory' = s.learningHistory
    /\ adaptationStrategies' = s.adaptationStrategies
    /\ userBehaviorPatterns' = s.userBehaviorPatterns
    /\ learningModels' = s.learningModels
    /\ nextModelId' = s.nextModelId
    /\ userPersonalization' = s.userPersonalization

\* A call that runs to its end with no other call in between: the caller's
\* script is not running, no model is retrained, the calls in flight wait.
becomes(s) == takes(s) /\ UNCHANGED <<phase, saved, exported, retrained, inFlight>>

\* The (user, domain) pair a learn call asks an adaptation for, if any.
adaptationRequestOf(data) ==
    IF data.type = "adaptive" /\ HasUserId(data)
    THEN {<<data.context.userId, domainOf(data.context)>>}
    ELSE {}

learn(data) ==
    /\ becomes(learnIn(this, data))
    /\ learnCalls' = learnCalls + 1
    /\ adapted' = adapted \cup adaptationRequestOf(data)
    /\ last' = [op |-> "learn", arg |-> data, ret |-> << >>, hit |-> FALSE]

learnFromFeedback(feedback, context) ==
    /\ becomes(learnFromFeedbackIn(this, feedback, context))
    /\ learnCalls' = learnCalls + 1
    /\ last' = [op |-> "learnFromFeedback",
                arg |-> [feedback |-> feedback, context |-> context],
                ret |-> << >>, hit |-> FALSE]
    /\ UNCHANGED adapted

adaptToUser(userId, domain, data) ==
    /\ becomes(adaptToUserIn(this, userId, domain, data))
    /\ adapted' = adapted \cup {<<userId, domain>>}
    /\ last' = [op |-> "adaptToUser", arg |-> [userId |-> userId, domain |-> domain],
                ret |-> adaptedStrategy(this, userId, domain, data),
                hit |-> MapHas(adaptationStrategies, strategyIdOf(userId, domain))]
    /\ UNCHANGED learnCalls

\* The result is the strategy in a sequence, the empty sequence for undefined.
getAdaptationStrategy(userId, domain) ==
    /\ last' = [op |-> "getAdaptationStrategy",
                arg |-> [userId |-> userId, domain |-> domain],
                ret |-> IF MapHas(adaptationStrategies, strategyIdOf(userId, domain))
                        THEN <<MapGet(adaptationStrategies, strategyIdOf(userId, domain))>>
                        ELSE << >>,
                hit |-> MapHas(adaptationStrategies, strategyIdOf(userId, domain))]
    /\ UNCHANGED <<storeVars, learnVars>>

learnUserBehavior(userId, input) ==
    /\ becomes(learnUserBehaviorIn(this, userId, input))
    /\ learnCalls' = learnCalls + 1
    /\ last' = [op |-> "learnUserBehavior", arg |-> [userId |-> userId, input |-> input],
                ret |-> << >>,
                hit |-> \E i \in 1..Len(patternsOf(this, userId)) :
                            patternsOf(this, userId)[i].pattern = input.action]
    /\ UNCHANGED adapted

getUserBehaviorPatterns(userId) ==
    /\ last' = [op |-> "getUserBehaviorPatterns", arg |-> userId,
                ret |-> patternsOf(this, userId), hit |-> FALSE]
    /\ UNCHANGED <<storeVars, learnVars>>

predictUserAction(userId, holder) ==
    /\ last' = [op |-> "predictUserAction", arg |-> [userId |-> userId, holder |-> holder],
                ret |-> predictions(this, userId, holder), hit |-> FALSE]
    /\ UNCHANGED <<storeVars, learnVars>>

personalize(userId, preferences) ==
    /\ becomes(personalizeIn(this, userId, preferences))
    /\ learnCalls' = learnCalls + 1
    /\ last' = [op |-> "personalize",
                arg |-> [userId |-> userId, preferences |-> preferences],
                ret |-> << >>, hit |-> FALSE]
    /\ UNCHANGED adapted

getLearningStats ==
    /\ last' = [op |-> "getLearningStats", arg |-> << >>, ret |-> getLearningStatsOf(this),
                hit |-> FALSE]
    /\ UNCHANGED <<storeVars, learnVars>>


----------------------------------------------------------------------------
\* Learning models and personalization (atomspace-service.ts)

\* positiveCount / feedbackData.length over all the training data of the
\* model, in thousandths; 0.5 when no record carries feedback.
calculateModelAccuracy(model) ==
    LET withFeedback == SelectSeq(model.trainingData, LAMBDA d : "feedback" \in DOMAIN d)
        positiveCount == Len(SelectSeq(withFeedback, LAMBDA d : d.feedback.helpful))
    IN  IF Len(model.trainingData) = 0 THEN 500
        ELSE IF Len(withFeedback) = 0 THEN 500
        ELSE (positiveCount * 1000) \div Len(withFeedback)

\* A mutation of updateLearningModelIn: the new records replace the old ones.
updateLearningModelReplacesData(s, modelId, trainingData) ==
    LET model == MapGet(s.learningModels, modelId)
        trained == Spread(model, [trainingData |-> trainingData])
        changed == [trainingData |-> trainingData, updatedAt |-> DateNow,
                    version |-> model.version + 1,
                    accuracy |-> calculateModelAccuracy(trained),
                    confidence |-> Min(900, calculateModelAccuracy(trained) + 100)]
    IN  [s EXCEPT !.learningModels =
            MapSet(mutateModel(@, model.id, changed), modelId, Spread(model, changed))]

\* updateLearningModel on a model that is stored under modelId
updateLearningModelIn(s, modelId, trainingData) ==
    LET model == MapGet(s.learningModels, modelId)
        trained == Spread(model, [trainingData |-> model.trainingData \o trainingData])
        changed == [trainingData |-> trained.trainingData, updatedAt |-> DateNow,
                    version |-> model.version + 1,
                    accuracy |-> calculateModelAccuracy(trained),
                    confidence |-> Min(900, calculateModelAccuracy(trained) + 100)]
    IN  [s EXCEPT !.learningModels =
            MapSet(mutateModel(@, model.id, changed), modelId, Spread(model, changed))]

\* The successful updateLearningModel calls on the model of this id so far.
retrainedOf(id) == IF id \in DOMAIN retrained THEN retrained[id] ELSE 0

createLearningModel(type, parameters) ==
    /\ becomes(createLearningModelIn(this, type, parameters))
    /\ last' = [op |-> "createLearningModel",
                arg |-> [type |-> type, parameters |-> parameters],
                ret |-> newLearningModel(nextModelId, type, parameters), hit |-> FALSE]
    /\ UNCHANGED <<learnCalls, adapted>>

\* A mutation of updateLearningModel: an unknown id gets a model of its own.
updateLearningModelUpserts(modelId, trainingData) ==
    LET s == IF MapHas(learningModels, modelId) THEN this
             ELSE [this EXCEPT !.learningModels =
                      MapSet(@, modelId, Spread(newLearningModel(0, "unknown", << >>),
                                                [id |-> modelId]))]
        id == MapGet(s.learningModels, modelId).id
    IN  /\ takes(updateLearningModelIn(s, modelId, trainingData))
        /\ retrained' = [i \in DOMAIN retrained \cup {id} |->
                            retrainedOf(i) + (IF i = id THEN 1 ELSE 0)]
        /\ last' = [op |-> "updateLearningModel",
                    arg |-> [modelId |-> modelId, trainingData |-> trainingData],
                    ret |-> Returned(MapGet(learningModels', modelId)), hit |-> TRUE]
        /\ UNCHANGED <<phase, saved, exported, learnCalls, adapted, inFlight>>

\* An unknown id throws `Learning model ${modelId} not found` before any write.
updateLearningModel(modelId, trainingData) ==
    IF MapHas(learningModels, modelId)
    THEN LET id == MapGet(learningModels, modelId).id
         IN  /\ takes(updateLearningModelIn(this, modelId, trainingData))
             /\ retrained' = [i \in DOMAIN retrained \cup {id} |->
                                 retrainedOf(i) + (IF i = id THEN 1 ELSE 0)]
             /\ last' = [op |-> "updateLearningModel",
                         arg |-> [modelId |-> modelId, trainingData |-> trainingData],
                         ret |-> Returned(MapGet(learningModels', modelId)), hit |-> TRUE]
             /\ UNCHANGED <<phase, saved, exported, learnCalls, adapted, inFlight>>
    ELSE /\ last' = [op |-> "updateLearningModel",
                     arg |-> [modelId |-> modelId, trainingData |-> trainingData],
                     ret |-> [threw |-> TRUE,
                              message |-> "Learning model " \o modelId \o " not found"],
                     hit |-> FALSE]
         /\ UNCHANGED <<storeVars, learnVars>>

\* The result is the model in a sequence, the empty sequence for undefined.
getLearningModel(modelId) ==
    /\ last' = [op |-> "getLearningModel", arg |-> modelId,
                ret |-> IF MapHas(learningModels, modelId)
                        THEN <<MapGet(learningModels, modelId)>> ELSE << >>,
                hit |-> MapHas(learningModels, modelId)]
    /\ UNCHANGED <<storeVars, learnVars>>

\* Array.from(this.learningModels.values())
listLearningModels ==
    /\ last' = [op |-> "listLearningModels", arg |-> << >>,
                ret |-> MapValues(learningModels), hit |-> FALSE]
    /\ UNCHANGED <<storeVars, learnVars>>

\* this.userPersonalization.get(userId) || {}
getPersonalization(userId) ==
    /\ last' = [op |-> "getPersonalization", arg |-> userId,
                ret |-> IF MapHas(userPersonalization, userId)
                        THEN MapGet(userPersonalization, userId) ELSE << >>,
                hit |-> MapHas(userPersonalization, userId)]
    /\ UNCHANGED <<storeVars, learnVars>>

----------------------------------------------------------------------------
\* learnFromFeedback one await at a time (atomspace-service.ts)
\*
\* An async method runs from one await to the next without interruption; at
\* an await another call may run. A call in flight is [feedback, context,
\* record, at, found]: its position in the history, the await it waits at,
\* and whether getAdaptationStrategy found a strategy for it.

\* The sequence without its i-th element.
withoutCall(calls, i) == SubSeq(calls, 1, i - 1) \o SubSeq(calls, i + 1, Len(calls))

\* The call runs up to `await this.processSupervisedLearning(...)` of learn:
\* the record is pushed; it has no expectedOutput, so no model is touched.
learnFromFeedbackCalled(feedback, context) ==
    LET enhanced == enhancedLearningData(feedbackData(feedback, context))
        s1 == [this EXCEPT !.learningHistory = Append(@, enhanced)]
    IN  /\ takes(processSupervisedLearning(s1, enhanced))
        /\ inFlight' = Append(inFlight, [feedback |-> feedback, context |-> context,
                                         record |-> Len(learningHistory) + 1,
                                         at |-> "process", found |-> FALSE])
        /\ learnCalls' = learnCalls + 1
        /\ last' = [op |-> "learnFromFeedback",
                    arg |-> [feedback |-> feedback, context |-> context],
                    ret |-> << >>, hit |-> FALSE]
        /\ UNCHANGED <<phase, saved, exported, adapted, retrained>>

\* learn resumes: this.addAtom(learningAtom) runs, learn waits for it.
learnAddsAtom(i) ==
    /\ inFlight[i].at = "process"
    /\ takes(addAtomIn(this, learningAtom))
    /\ inFlight' = [inFlight EXCEPT ![i].at = "addAtom"]
    /\ UNCHANGED <<phase, saved, exported, adapted, retrained, learnCalls, last>>

\* learnFromFeedback resumes after learn: without a userId it ends, with one
\* updateAdaptationFromFeedback reads the strategy and waits for it.
learnFromFeedbackResumes(i) ==
    /\ inFlight[i].at = "addAtom"
    /\ inFlight' =
          IF HasText(inFlight[i].context, "userId")
          THEN [inFlight EXCEPT
                   ![i].at = "getAdaptationStrategy",
                   ![i].found = MapHas(adaptationStrategies,
                                       strategyIdOf(inFlight[i].context.userId,
                                                    domainOf(inFlight[i].context)))]
          ELSE withoutCall(inFlight, i)
    /\ UNCHANGED <<storeVars, last, learningHistory, adaptationStrategies,
                   userBehaviorPatterns, learningModels, nextModelId, userPersonalization,
                   learnCalls, adapted, retrained>>

\* updateAdaptationFromFeedback resumes with the strategy it read, writes the
\* effectiveness if there is one, and the call ends.
updateAdaptationFromFeedbackResumes(i) ==
    /\ inFlight[i].at = "getAdaptationStrategy"
    /\ takes(IF inFlight[i].found
             THEN updateAdaptationFromFeedbackIn(this, inFlight[i].context.userId,
                                                 inFlight[i].feedback, inFlight[i].context)
             ELSE this)
    /\ inFlight' = withoutCall(inFlight, i)
    /\ UNCHANGED <<phase, saved, exported, adapted, retrained, learnCalls, last>>

\* learn of the kinds that score a per-user model, one await at a time. A call
\* in flight is [data, score, at, model]: the await it waits at and the id of
\* the model createLearningModel made for it, "" when the model was found.

\* The LearningData has what processSupervisedLearning or
\* processReinforcementLearning asks for before it calls updateUserModel.
scoresModel(data) ==
    /\ HasUserId(data)
    /\ \/ data.type = "supervised" /\ "expectedOutput" \in DOMAIN data
       \/ data.type = "reinforcement" /\ "feedback" \in DOMAIN data

\* The score the process method passes to updateUserModel.
scoreOf(data) ==
    IF data.type = "supervised"
    THEN calculatePredictionAccuracy(data.input, data.expectedOutput)
    ELSE calculateReward(data.feedback)

\* The lines of updateUserModel after `model = await this.createLearningModel`
\* for the model with the given id.
updateUserModelStores(s, userId, type, score, id) ==
    LET model == MapGet(s.learningModels, id)
        changed == [accuracy |-> (accuracyOrHalf(model) * 9 + score) \div 10,
                    updatedAt |-> DateNow]
    IN  [s EXCEPT !.learningModels =
            MapSet(mutateModel(@, id, changed), "user_" \o userId \o "_" \o type,
                   Spread(model, changed))]

\* learn is called with a supervised or reinforcement record: the record is
\* pushed and the process method runs into updateUserModel. When the model
\* is in the table updateUserModel runs to its end; when it is not,
\* createLearningModel stores a new model under its own id, adds the model
\* atom and waits at `await this.addAtom(modelAtom)`.
learnCalled(data) ==
    LET enhanced == enhancedLearningData(data)
        s1 == [this EXCEPT !.learningHistory = Append(@, enhanced)]
        modelId == "user_" \o data.context.userId \o "_" \o data.type
        creates == scoresModel(data) /\ ~MapHas(learningModels, modelId)
    IN  /\ takes(IF ~scoresModel(data) THEN s1
                 ELSE IF creates
                      THEN createLearningModelIn(s1, "user_" \o data.type,
                                                 [userId |-> data.context.userId])
                      ELSE updateUserModelIn(s1, data.context.userId, data.type,
                                             scoreOf(data)))
        /\ inFlight' = Append(inFlight,
                              [data |-> data,
                               at |-> IF creates THEN "createLearningModel" ELSE "process",
                               model |-> IF creates THEN "model_" \o ToString(nextModelId)
                                         ELSE ""])
        /\ learnCalls' = learnCalls + 1
        /\ last' = [op |-> "learn", arg |-> data, ret |-> << >>, hit |-> FALSE]
        /\ UNCHANGED <<phase, saved, exported, adapted, retrained>>

\* updateUserModel resumes with the model createLearningModel returned: it
\* sets the accuracy and stores the model under the key of the user.
updateUserModelResumes(i) ==
    /\ inFlight[i].at = "createLearningModel"
    /\ takes(updateUserModelStores(this, inFlight[i].data.context.userId,
                                   inFlight[i].data.type, scoreOf(inFlight[i].data),
                                   inFlight[i].model))
    /\ inFlight' = [inFlight EXCEPT ![i].at = "process"]
    /\ UNCHANGED <<phase, saved, exported, adapted, retrained, learnCalls, last>>

\* learn resumes after the process method: the LearningRecord atom is added
\* and the call ends.
learnAddsRecord(i) ==
    /\ inFlight[i].at = "process"
    /\ takes(addAtomIn(this, learningAtom))
    /\ inFlight' = withoutCall(inFlight, i)
    /\ UNCHANGED <<phase, saved, exported, adapted, retrained, learnCalls, last>>

----------------------------------------------------------------------------
\* Pattern recognition
\*
\* atomspace-service.ts answers with one fixed pattern. The service of
\* ai-opencog-backend-module.ts hands the input to the pattern engine of
\* ./reasoning-engines; the engine is modelled from its description: the
\* detectors yield some patterns, which are rescored, filtered, ranked and cut.

\* AtomSpaceService.recognizePatterns of atomspace-service.ts
recognizePatterns(input) ==
    /\ last' = [op |-> "recognizePatterns", arg |-> [input |-> input],
                ret |-> Returned(<< [pattern |-> [type |-> "basic", data |-> input.data],
                                     confidence |-> 500, instances |-> << >>,
                                     metadata |-> [timestamp |-> DateNow]] >>),
                hit |-> FALSE]
    /\ UNCHANGED <<storeVars, learnVars>>

\* The defaults of PatternRecognitionOptions; confidences in thousandths.
DefaultMaxResults == 10
DefaultMinConfidence == 100

\* input.options?.[name] ?? byDefault
optionOf(input, name, byDefault) ==
    IF "options" \in DOMAIN input /\ name \in DOMAIN input.options
    THEN input.options[name] ELSE byDefault

\* A mutation of sortPatterns: the patterns stay in the order of detection.
sortPatternsKeepsOrder(patterns) == patterns

\* Sort descending by final confidence, a pattern after those not below it.
RECURSIVE sortPatterns(_)
sortPatterns(patterns) ==
    IF patterns = << >> THEN << >>
    ELSE LET sorted == sortPatterns(SubSeq(patterns, 1, Len(patterns) - 1))
             x == patterns[Len(patterns)]
             k == Cardinality({i \in 1..Len(sorted) : sorted[i].confidence >= x.confidence})
         IN  SubSeq(sorted, 1, k) \o <<x>> \o SubSeq(sorted, k + 1, Len(sorted))

\* patternEngine.recognizePatterns(input) on the patterns the detectors found:
\* confidence x 1.2 for scope global, x 0.9 for local, x 1.1 for more than 5
\* instances, x 0.8 for fewer than 2, clamped to [0,1]; results below
\* minConfidence dropped unless includeLowConfidence; only the requested
\* patternTypes kept; sorted, and cut to maxResults.
patternEngineRecognize(input, detected) ==
    LET byScope == IF "scope" \in DOMAIN input /\ input.scope = "global" THEN 12
                   ELSE IF "scope" \in DOMAIN input /\ input.scope = "local" THEN 9 ELSE 10
        byInstances(p) == IF Len(p.instances) > 5 THEN 11
                          ELSE IF Len(p.instances) < 2 THEN 8 ELSE 10
        rescored == [i \in 1..Len(detected) |->
                        [detected[i] EXCEPT !.confidence =
                            Min(1000, (@ * byScope * byInstances(detected[i])) \div 100)]]
        kept(p) == /\ \/ optionOf(input, "includeLowConfidence", FALSE)
                      \/ p.confidence >= optionOf(input, "minConfidence", DefaultMinConfidence)
                   /\ \/ ~("options" \in DOMAIN input /\ "patternTypes" \in DOMAIN input.options)
                      \/ p.metadata.patternType \in input.options.patternTypes
        ranked == sortPatterns(SelectSeq(rescored, kept))
    IN  SubSeq(ranked, 1, Min(optionOf(input, "maxResults", DefaultMaxResults), Len(ranked)))

\* AtomSpaceService.recognizePatterns of ai-opencog-backend-module.ts: what
\* the engine returns, or `Pattern recognition failed` when it throws.
recognizePatternsWithEngine(input, outcome) ==
    /\ last' = [op |-> "recognizePatternsWithEngine",
                arg |-> [input |-> input, outcome |-> outcome],
                ret |-> IF outcome.threw
                        THEN [threw |-> TRUE, message |-> "Pattern recognition failed"]
                        ELSE Returned(outcome.result),
                hit |-> FALSE]
    /\ UNCHANGED <<storeVars, learnVars>>

----------------------------------------------------------------------------
\* Inputs of the learning methods

\* Bounds: the records of the history under general learning, under feedback,
\* under adaptation and under behaviour learning; the adaptToUser calls.
MaxHistory == 3
MaxFeedback == 6
MaxUserHistory == 11
MaxBehaviorCalls == 7
MaxAdaptations == 2

devContext == [userId |-> "dev"]
taskContext == [userId |-> "dev", currentTask |-> "completion"]

thumbsUp == [rating |-> 5, helpful |-> TRUE]
thumbsDown == [rating |-> 1, helpful |-> FALSE, outcome |-> "rejected"]

openFile == [action |-> "open_file", context |-> [file |-> "a.ts", language |-> "ts"]]

LearnInputs ==
    { [type |-> "supervised", input |-> [code |-> "x"], expectedOutput |-> [code |-> "x"],
       context |-> devContext],
      [type |-> "unsupervised", input |-> [code |-> "x"], context |-> devContext],
      [type |-> "reinforcement", input |-> [code |-> "x"], feedback |-> thumbsDown,
       context |-> devContext],
      [type |-> "personalization", input |-> [theme |-> "dark"], context |-> devContext],
      [type |-> "behavioral", input |-> openFile, context |-> devContext],
      [type |-> "adaptive", input |-> [code |-> "x"], context |-> taskContext],
      [type |-> "unsupervised", timestamp |-> 0, sessionId |-> "s1"] }

\* Learning of every kind, with the store cleared in between.
NextLearning ==
    \/ /\ Len(learningHistory) < MaxHistory
       /\ \E data \in LearnInputs : learn(data)
    \/ /\ Len(learningHistory) < MaxHistory
       /\ \E feedback \in {thumbsUp, thumbsDown} : learnFromFeedback(feedback, taskContext)
    \/ /\ Len(learningHistory) < MaxHistory
       /\ learnUserBehavior("dev", openFile)
    \/ /\ Len(learningHistory) < MaxHistory
       /\ personalize("dev", [theme |-> "light"])
    \/ getLearningStats
    \/ clearAtomSpace

SpecLearning == Init /\ [][NextLearning]_vars

\* Every rating of the 1-5 scale with both values of helpful.
FeedbackInputs == {[rating |-> r, helpful |-> h] : r \in 1..5, h \in BOOLEAN}

\* Feedback of every rating, from a known user and from none.
NextPriority ==
    \/ /\ Len(learningHistory) < MaxHistory
       /\ \E feedback \in FeedbackInputs, context \in {devContext, << >>} :
             learnFromFeedback(feedback, context)
    \/ getLearningStats

SpecPriority == Init /\ [][NextPriority]_vars

\* The adaptation atoms in the store: one for each adaptToUser so far.
adaptationAtoms == SelectSeq(MapValues(atoms), LAMBDA atom : atom.type = "AdaptationNode")

\* Feedback of one user on a task, with adaptation to that task and to another.
NextFeedback ==
    \/ /\ Len(learningHistory) < MaxFeedback
       /\ \E feedback \in {thumbsUp, thumbsDown} : learnFromFeedback(feedback, taskContext)
    \/ /\ Len(adaptationAtoms) < MaxAdaptations
       /\ \E domain \in {"completion", "general"} : adaptToUser("dev", domain, << >>)
    \/ \E domain \in {"completion", "general"} : getAdaptationStrategy("dev", domain)

SpecFeedback == Init /\ [][NextFeedback]_vars

\* Two users and two domains whose names run together into one string.
UserInputs == {"dev", "dev_code"}
DomainInputs == {"code_completion", "completion"}

otherUserAdaptive ==
    [type |-> "adaptive", input |-> [code |-> "x"],
     context |-> [userId |-> "dev_code", currentTask |-> "completion"]]

\* Feedback of one user until the history is long, with adaptation of two
\* users to two domains, asked for directly and by an adaptive record.
NextAdaptation ==
    \/ /\ Len(learningHistory) < MaxUserHistory
       /\ learnFromFeedback(thumbsDown, taskContext)
    \/ /\ Len(learningHistory) < MaxUserHistory
       /\ Len(adaptationAtoms) < MaxAdaptations
       /\ learn(otherUserAdaptive)
    \/ /\ Len(adaptationAtoms) < MaxAdaptations
       /\ \E userId \in UserInputs, domain \in DomainInputs : adaptToUser(userId, domain, << >>)
    \/ \E userId \in UserInputs, domain \in DomainInputs : getAdaptationStrategy(userId, domain)

SpecAdaptation == Init /\ [][NextAdaptation]_vars

editingA == [file |-> "a.ts", language |-> "ts", mode |-> "edit"]
editingB == [file |-> "b.ts", language |-> "ts", mode |-> "edit"]

\* The actions of a user, each with the context it is seen in, in the order
\* in which the user takes them up.
BehaviorInputs ==
    << [action |-> "open_file", context |-> editingA],
       [action |-> "close_file"],
       [action |-> "save_file", context |-> editingB],
       [action |-> "run_tests", context |-> editingA],
       [action |-> "commit", context |-> editingB],
       [action |-> "format", context |-> editingA],
       [action |-> "search", context |-> editingB] >>

\* The contexts predictions are asked for; the last one is undefined.
PredictionInputs ==
    { [context |-> editingA],
      [context |-> [file |-> "a.ts", language |-> "ts"]],
      [context |-> [file |-> "b.ts", language |-> "py", mode |-> "view"]],
      << >> }

\* Behaviour of one user, with predictions and the pattern list read. The
\* names of the actions are interchangeable, so a new action is the next of
\* BehaviorInputs; an action seen before may recur at any time.
NextBehavior ==
    \/ /\ Len(learningHistory) < MaxBehaviorCalls
       /\ \E i \in 1..Len(BehaviorInputs) :
             /\ i <= Len(patternsOf(this, "dev")) + 1
             /\ learnUserBehavior("dev", BehaviorInputs[i])
    \/ /\ Len(learningHistory) < MaxBehaviorCalls
       /\ learn([type |-> "behavioral", input |-> openFile, context |-> devContext])
    \/ \E holder \in PredictionInputs : predictUserAction("dev", holder)
    \/ getUserBehaviorPatterns("dev")
    \/ getLearningStats

SpecBehavior == Init /\ [][NextBehavior]_vars

\* Bounds: the models createLearningModel makes, the successful updates.
MaxModels == 2
MaxRetrains == 2

helpfulRecord == [type |-> "supervised", input |-> [code |-> "x"], feedback |-> thumbsUp]
unhelpfulRecord == [type |-> "supervised", input |-> [code |-> "y"], feedback |-> thumbsDown]
plainRecord == [type |-> "unsupervised", input |-> [code |-> "z"]]

\* The arrays updateLearningModel is called with.
TrainingInputs == {<<helpfulRecord>>, <<unhelpfulRecord, plainRecord>>, << >>}

\* The ids models are asked for: two that createLearningModel issues, the
\* second key of the model of a user, and one that never holds a model.
ModelIdInputs == {"model_1", "model_2", "user_dev_supervised", "model_0"}

\* All the updates so far.
RECURSIVE retrainsOver(_)
retrainsOver(ids) ==
    IF ids = {} THEN 0
    ELSE LET id == CHOOSE i \in ids : TRUE IN retrained[id] + retrainsOver(ids \ {id})

supervisedOfDev ==
    [type |-> "supervised", input |-> [code |-> "x"], expectedOutput |-> [code |-> "x"],
     context |-> devContext]

\* Models made, retrained and read, with the model of a user that supervised
\* learning makes, and the store cleared in between.
NextModels ==
    \/ /\ nextModelId <= MaxModels
       /\ \E parameters \in {<< >>, [rate |-> 1]} :
             createLearningModel("code_completion", parameters)
    \/ /\ retrainsOver(DOMAIN retrained) < MaxRetrains
       /\ \E modelId \in ModelIdInputs, trainingData \in TrainingInputs :
             updateLearningModel(modelId, trainingData)
    \/ /\ nextModelId <= MaxModels
       /\ ~MapHas(learningModels, "user_dev_supervised")
       /\ learn(supervisedOfDev)
    \/ \E modelId \in ModelIdInputs : getLearningModel(modelId)
    \/ listLearningModels
    \/ clearAtomSpace

SpecModels == Init /\ [][NextModels]_vars

\* The preferences personalize is called with; one names the key of the stamp.
PreferenceInputs ==
    { [theme |-> "dark"], [theme |-> "light", font |-> "mono"], [tabs |-> 2],
      [lastUpdated |-> 0], << >> }

\* Preferences of two users set and read, a third user read only, and a
\* personalization record learnt directly.
NextPersonal ==
    \/ /\ Len(learningHistory) < MaxHistory
       /\ \E userId \in {"dev", "ops"}, preferences \in PreferenceInputs :
             personalize(userId, preferences)
    \/ /\ Len(learningHistory) < MaxHistory
       /\ learn([type |-> "personalization", input |-> [theme |-> "dark"],
                 context |-> devContext])
    \/ \E userId \in {"dev", "ops", "guest"} : getPersonalization(userId)

SpecPersonal == Init /\ [][NextPersonal]_vars

\* Bound: the learnFromFeedback calls that wait at an await at one time.
MaxInFlight == 1

\* Feedback of one user on a task, one await at a time, while the strategy
\* and the statistics are read; adaptToUser runs when no call is in flight.
NextInterleaved ==
    \/ /\ Len(learningHistory) < MaxHistory
       /\ Len(inFlight) < MaxInFlight
       /\ \E feedback \in {thumbsUp, thumbsDown}, context \in {taskContext, << >>} :
             learnFromFeedbackCalled(feedback, context)
    \/ \E i \in 1..Len(inFlight) : learnAddsAtom(i)
    \/ \E i \in 1..Len(inFlight) : learnFromFeedbackResumes(i)
    \/ \E i \in 1..Len(inFlight) : updateAdaptationFromFeedbackResumes(i)
    \/ /\ inFlight = << >>
       /\ Len(adaptationAtoms) < MaxAdaptations
       /\ adaptToUser("dev", "completion", << >>)
    \/ getAdaptationStrategy("dev", "completion")
    \/ getLearningStats

SpecInterleaved == Init /\ [][NextInterleaved]_vars

\* The inputs of recognizePatterns: data, scope and options, each optional
\* part left out in some.
RecognitionInputs ==
    { Spread(Spread([data |-> data], scope), options) :
        data \in {"simple text", ""},
        scope \in {<< >>, [scope |-> "local"], [scope |-> "global"]},
        options \in { << >>,
                      [options |-> [maxResults |-> 1]],
                      [options |-> [maxResults |-> 2, minConfidence |-> 800]],
                      [options |-> [minConfidence |-> 800, includeLowConfidence |-> TRUE]],
                      [options |-> [patternTypes |-> {"structural"}]],
                      [options |-> [patternTypes |-> {"behavioral", "code"},
                                    minConfidence |-> 300]] } }

\* A pattern as a detector reports it.
detectedPattern(type, patternType, confidence, count) ==
    [pattern |-> [type |-> type], confidence |-> confidence,
     instances |-> [i \in 1..count |-> i], metadata |-> [patternType |-> patternType]]

\* What the detectors find: nothing, one weak pattern, three patterns of
\* three kinds in no order, eleven patterns of rising confidence.
DetectedInputs ==
    { << >>,
      << detectedPattern("function-declaration", "code", 50, 1) >>,
      << detectedPattern("arithmetic-sequence", "structural", 500, 3),
         detectedPattern("interaction-rhythm", "behavioral", 900, 6),
         detectedPattern("arrow-function", "code", 120, 1) >>,
      [i \in 1..11 |-> detectedPattern("repetition", "structural", 400 + 50 * i, 3)] }

\* The queries of both services: reasoning and pattern recognition.
NextQueries ==
    \/ \E input \in RecognitionInputs : recognizePatterns(input)
    \/ \E input \in RecognitionInputs, detected \in DetectedInputs :
          recognizePatternsWithEngine(input, Returned(patternEngineRecognize(input, detected)))
    \/ \E input \in RecognitionInputs : recognizePatternsWithEngine(input, Threw)
    \/ \E type \in QueryTypes : reason([type |-> type])
    \/ NextEngine

SpecQueries == Init /\ [][NextQueries]_vars

\* Bound: the length of the arrays of numbers patterns are looked for in.
MaxSequenceLen == 4

\* Arrays of numbers as data of a PatternInput: every short array of small
\* numbers and the sequence 1, 3, .., 11.
SequenceInputs ==
    {[data |-> a, scope |-> "local"] :
        a \in UNION {[1..n -> 0..2] : n \in 0..MaxSequenceLen} \cup {<<1, 3, 5, 7, 9, 11>>}}

\* Patterns looked for in arrays of numbers.
NextSequences == \E input \in SequenceInputs : recognizePatterns(input)

SpecSequences == Init /\ [][NextSequences]_vars

\* Bounds: the calls in which any user takes up any action, and all calls.
MaxHabitStart == 2
MaxHabitCalls == 28

\* Two users take up actions, then one of them repeats one action until the
\* confidence of its pattern reaches the cap.
NextHabit ==
    \/ /\ Len(learningHistory) < MaxHabitStart
       /\ \E userId \in UserInputs, i \in 1..2 : learnUserBehavior(userId, BehaviorInputs[i])
    \/ /\ Len(learningHistory) < MaxHabitCalls
       /\ learnUserBehavior("dev", BehaviorInputs[1])
    \/ \E userId \in UserInputs : getUserBehaviorPatterns(userId)
    \/ getLearningStats

SpecHabit == Init /\ [][NextHabit]_vars

\* Bound: the learn calls that score the models of a user.
MaxScored == 4

\* Learning of the three kinds that score a per-user model; the feedback has
\* a rating at either end of the scale.
ScoredInputs ==
    { [type |-> "reinforcement", input |-> [code |-> "x"],
       feedback |-> [rating |-> r, helpful |-> h], context |-> devContext] :
         r \in {1, 5}, h \in BOOLEAN }
        \cup { supervisedOfDev,
               [type |-> "unsupervised", input |-> [code |-> "x"], context |-> devContext] }

NextScored ==
    \/ /\ Len(learningHistory) < MaxScored
       /\ \E data \in ScoredInputs : learn(data)
    \/ getLearningStats
    \/ listLearningModels

SpecScored == Init /\ [][NextScored]_vars

\* Bound: the learn calls that wait at an await at one time.
MaxRacing == 2

\* Records that score the models of one user, and one of no user.
RacingInputs ==
    { supervisedOfDev,
      [type |-> "reinforcement", input |-> [code |-> "x"], feedback |-> thumbsUp,
       context |-> devContext],
      [type |-> "supervised", input |-> [code |-> "x"], expectedOutput |-> [code |-> "y"]] }

\* learn calls of one user, one await at a time, while the models are read.
NextRacing ==
    \/ /\ Len(learningHistory) < MaxHistory
       /\ Len(inFlight) < MaxRacing
       /\ \E data \in RacingInputs : learnCalled(data)
    \/ \E i \in 1..Len(inFlight) : updateUserModelResumes(i)
    \/ \E i \in 1..Len(inFlight) : learnAddsRecord(i)
    \/ listLearningModels
    \/ getLearningStats

SpecRacing == Init /\ [][NextRacing]_vars

\* The contexts of two users whose strategy keys run together.
IsolationContexts ==
    {taskContext, [userId |-> "dev_code", currentTask |-> "completion"],
     [userId |-> "dev", currentTask |-> "code_completion"]}

\* Two users learn side by side: behaviour, preferences, feedback and
\* adaptive records, after strategies were made for them.
NextIsolation ==
    \/ /\ Len(adaptationAtoms) < MaxAdaptations
       /\ Len(learningHistory) = 0
       /\ \E userId \in UserInputs, domain \in DomainInputs : adaptToUser(userId, domain, << >>)
    \/ /\ Len(learningHistory) < MaxHistory
       /\ \E userId \in UserInputs : learnUserBehavior(userId, BehaviorInputs[1])
    \/ /\ Len(learningHistory) < MaxHistory
       /\ \E userId \in UserInputs : personalize(userId, [theme |-> "light"])
    \/ /\ Len(learningHistory) < MaxHistory
       /\ \E context \in IsolationContexts : learnFromFeedback(thumbsDown, context)
    \/ /\ Len(learningHistory) < MaxHistory
       /\ Len(adaptationAtoms) < MaxAdaptations
       /\ \E context \in IsolationContexts :
             learn([type |-> "adaptive", input |-> [code |-> "x"], context |-> context])
    \/ \E userId \in UserInputs, domain \in DomainInputs : getAdaptationStrategy(userId, domain)

SpecIsolation == Init /\ [][NextIsolation]_vars

----------------------------------------------------------------------------
\* Properties of the atom store

\* The stores a and b hold the same atoms: same ids, same content, same count.
SameStore(a, b) ==
    /\ Len(a) = Len(b)
    /\ MapKeySet(a) = MapKeySet(b)
    /\ \A k \in MapKeySet(a) : SameContent(MapGet(a, k), MapGet(b, k))

\* Every atom stored under a key other than k is the same in a and b.
OthersUnchanged(a, b, k) ==
    \A j \in MapKeySet(a) \ {k} : MapHas(b, j) /\ MapGet(b, j) = MapGet(a, j)

\* C1: add of an atom that carries no id returns an id under which no atom
\* was stored: it overwrites nothing and the store grows by exactly 1.
C1_AddWithoutIdIsFresh ==
    [][ (last'.op = "add" /\ ~Truthy(last'.arg, "id"))
            => (~MapHas(atoms, last'.ret) /\ Len(atoms') = Len(atoms) + 1) ]_vars

Malformed(data) ==
    \/ ~data.parses
    \/ data.value.t # "array"
    \/ \E i \in 1..Len(data.value.a) :
          data.value.a[i].t # "object" \/ ~Defined(data.value.a[i].o, "type")

\* C3: import of a malformed blob raises the import error and leaves the
\* store holding exactly the atoms it held before the call.
C3_ImportAllOrNothing ==
    [][ (last'.op = "import" /\ Malformed(last'.arg))
            => (last'.ret = "Failed to import AtomSpace" /\ atoms' = atoms) ]_vars

\* The atom agrees with the pattern on the type and name fields the pattern has.
AgreesOnTypeAndName(atom, pattern) ==
    /\ Defined(pattern, "type") => StrictEq(atom, "type", pattern, "type")
    /\ Defined(pattern, "name") => StrictEq(atom, "name", pattern, "name")

\* C4: query returns exactly the stored atoms that agree with the pattern on
\* its present type and name fields.
C4_QueryMatchesTypeAndName ==
    last.op = "query" =>
        last.ret = SelectSeq(MapValues(atoms), LAMBDA atom : AgreesOnTypeAndName(atom, last.arg))

\* The atom reaches the thresholds the pattern carries.
MeetsThresholds(atom, pattern) ==
    /\ "truthValueThreshold" \in DOMAIN pattern =>
          /\ "truthValue" \in DOMAIN atom
          /\ atom.truthValue.strength >= pattern.truthValueThreshold.strength
          /\ atom.truthValue.confidence >= pattern.truthValueThreshold.confidence
    /\ "attentionThreshold" \in DOMAIN pattern =>
          /\ "attentionValue" \in DOMAIN atom
          /\ atom.attentionValue.sti >= pattern.attentionThreshold.sti
          /\ atom.attentionValue.lti >= pattern.attentionThreshold.lti
          /\ atom.attentionValue.vlti >= pattern.attentionThreshold.vlti

\* C5: an atom below a truth-value or attention threshold of the pattern is
\* never returned by query.
C5_QueryRespectsThresholds ==
    last.op = "query" =>
        \A i \in 1..Len(last.ret) : MeetsThresholds(last.ret[i], last.arg)

\* C6: add with a caller-supplied id that is stored replaces the atom under
\* that id with the new content, returns the id, leaves the size and every
\* other atom unchanged; a second call with the same atom changes nothing.
C6_AddWithStoredIdReplaces ==
    [][ (last'.op = "add" /\ Truthy(last'.arg, "id") /\ MapHas(atoms, last'.arg.id))
            => /\ last'.ret = last'.arg.id
               /\ Len(atoms') = Len(atoms)
               /\ MapHas(atoms', last'.ret)
               /\ MapGet(atoms', last'.ret) = last'.arg
               /\ OthersUnchanged(atoms, atoms', last'.ret)
               /\ (last.op = "add" /\ last.arg = last'.arg) => atoms' = atoms ]_vars

C6_Witness ==
    /\ last.op = "add"
    /\ last.hit
    /\ Truthy(last.arg, "id")
    /\ Len(atoms) >= 2
    /\ atoms[1].key = last.ret

\* C7: update of a stored id returns true and leaves, under the same id, an
\* atom holding the new values of the fields the updates name and the old
\* values of the others; no other atom and not the size changes. Update of
\* an unknown id returns false and changes nothing.
C7_UpdateMergesKeepingId ==
    [][ last'.op = "update" =>
            LET atomId == last'.arg.atomId
                updates == last'.arg.updates
            IN  IF MapHas(atoms, atomId)
                THEN /\ last'.ret = TRUE
                     /\ MapHas(atoms', atomId)
                     /\ MapGet(atoms', atomId).id = atomId
                     /\ \A f \in (DOMAIN updates) \ {"id"} :
                           StrictEq(MapGet(atoms', atomId), f, updates, f)
                     /\ \A f \in AtomFields \ (DOMAIN updates \cup {"id"}) :
                           StrictEq(MapGet(atoms', atomId), f, MapGet(atoms, atomId), f)
                     /\ OthersUnchanged(atoms, atoms', atomId)
                     /\ Len(atoms') = Len(atoms)
                ELSE last'.ret = FALSE /\ atoms' = atoms ]_vars

C7_Witness ==
    /\ last.op = "update"
    /\ last.ret = TRUE
    /\ "id" \in DOMAIN last.arg.updates
    /\ last.arg.updates.id # last.arg.atomId
    /\ Len(atoms) >= 2
    /\ "attentionValue" \in DOMAIN MapGet(atoms, last.arg.atomId)

\* C8: remove returns true exactly when an atom was stored under the id;
\* afterwards none is, the size has dropped by 1 and the other atoms are
\* unchanged. When it returns false the store is unchanged.
C8_RemoveReportsAndDeletes ==
    [][ last'.op = "remove" =>
            /\ last'.ret = MapHas(atoms, last'.arg)
            /\ ~MapHas(atoms', last'.arg)
            /\ last'.ret => /\ Len(atoms') = Len(atoms) - 1
                            /\ OthersUnchanged(atoms, atoms', last'.arg)
            /\ ~last'.ret => atoms' = atoms ]_vars

C8_Witness ==
    /\ last.op = "remove"
    /\ last.ret = TRUE
    /\ Len(atoms) >= 1
    /\ entered # << >>

\* The position of the id in the order of entry.
EnteredAt(id) == CHOOSE i \in 1..Len(entered) : entered[i] = id

\* The results of the last query are in the order their ids entered the store.
QueryResultsInEntryOrder ==
    last.op = "query" =>
        /\ \A i \in 1..Len(last.ret) : \E j \in 1..Len(entered) : entered[j] = last.ret[i].id
        /\ \A i, j \in 1..Len(last.ret) :
              i < j => EnteredAt(last.ret[i].id) < EnteredAt(last.ret[j].id)

\* C9: query returns its results in insertion order: of two atoms of a
\* result the one whose id entered the store earlier comes first; update of
\* an atom does not change its position.
C9_QueryInInsertionOrder ==
    /\ []QueryResultsInEntryOrder
    /\ [][ last'.op = "update" => MapKeys(atoms') = MapKeys(atoms) ]_vars

C9_Witness ==
    /\ last.op = "query"
    /\ Len(last.ret) >= 2
    /\ last.ret[1].id = "k"
    /\ "name" \in DOMAIN last.ret[1] /\ last.ret[1].name = "m"

----------------------------------------------------------------------------
\* Properties of reason

\* C10: reason with a query type outside the five known ones does not throw
\* and returns confidence 0 with a non-empty explanation.
C10_UnknownTypeGivesZeroConfidence ==
    (last.op \in {"reason", "reasonWithEngines"}
        /\ (IF last.op = "reason" THEN last.arg.type ELSE last.arg.query.type) \notin KnownTypes)
    => /\ last.ret.confidence = 0
       /\ last.ret.explanation # ""

\* The strategy reason selects for the query fails: the engine, or the
\* completion pipeline, throws; for hybrid reasoning, every engine throws.
SelectedStrategyFails(query, run) ==
    CASE query.type = "code-analysis" -> run.codeAnalysis.threw
      [] query.type = "code-completion" -> run.recognize.threw \/ run.pln.threw
      [] query.type \in {"deductive", "inductive", "abductive"} -> run.pln.threw
      [] OTHER -> run.pln.threw /\ run.pattern.threw

\* C11: when the strategy selected for a query fails, reason returns
\* confidence 0, a non-empty explanation and metadata.error = true; the
\* hybrid attempt in which every engine fails included.
C11_FailedReasoningCarriesErrorFlag ==
    (last.op = "reasonWithEngines" /\ SelectedStrategyFails(last.arg.query, last.arg.run))
    => /\ last.ret.confidence = 0
       /\ last.ret.explanation # ""
       /\ "metadata" \in DOMAIN last.ret
       /\ "error" \in DOMAIN last.ret.metadata
       /\ last.ret.metadata.error = TRUE

\* The query goes to hybrid reasoning.
IsHybrid(query) == query.type \notin KnownTypes

\* C12: hybrid reasoning combines exactly the engines that did not fail, in
\* the order PLN, pattern: conclusions concatenated, confidence their mean
\* (to the thousandth below), explanations joined; a failing engine takes
\* nothing from the other; when both fail the confidence is 0 and the
\* explanation says that no engine provided results.
C12_HybridCombinesSurvivors ==
    (last.op = "reasonWithEngines" /\ IsHybrid(last.arg.query)) =>
        LET pln == last.arg.run.pln
            pat == last.arg.run.pattern
            ret == last.ret
        IN  CASE pln.threw /\ pat.threw ->
                   /\ ret.confidence = 0
                   /\ ret.conclusion = << >>
                   /\ ret.explanation = "No reasoning engines provided results"
              [] pln.threw /\ ~pat.threw ->
                   /\ ret.conclusion = pat.result.conclusion
                   /\ ret.confidence = pat.result.confidence
                   /\ ret.explanation = "Hybrid reasoning (1 engines): " \o pat.result.explanation
              [] ~pln.threw /\ pat.threw ->
                   /\ ret.conclusion = pln.result.conclusion
                   /\ ret.confidence = pln.result.confidence
                   /\ ret.explanation = "Hybrid reasoning (1 engines): " \o pln.result.explanation
              [] OTHER ->
                   /\ ret.conclusion = pln.result.conclusion \o pat.result.conclusion
                   /\ 2 * ret.confidence <= pln.result.confidence + pat.result.confidence
                   /\ pln.result.confidence + pat.result.confidence < 2 * ret.confidence + 2
                   /\ ret.explanation = "Hybrid reasoning (2 engines): "
                          \o pln.result.explanation \o "; " \o pat.result.explanation

C12_Witness ==
    /\ last.op = "reasonWithEngines"
    /\ IsHybrid(last.arg.query)
    /\ last.arg.run.pln.threw
    /\ ~last.arg.run.pattern.threw
    /\ last.ret.conclusion = <<matchedAtom>>
    /\ last.ret.confidence = 600

----------------------------------------------------------------------------
\* Properties of learning

\* C13: the learning history is append-only: a step leaves the earlier
\* history as a prefix of the later one and adds exactly one record per call
\* of learn (direct, or through learnFromFeedback, learnUserBehavior or
\* personalize); getLearningStats reports the number of learn calls so far.
C13_HistoryAppendOnly ==
    /\ [][ /\ Len(learningHistory') = Len(learningHistory) + (learnCalls' - learnCalls)
           /\ SubSeq(learningHistory', 1, Len(learningHistory)) = learningHistory ]_vars
    /\ [](Len(learningHistory) = learnCalls)
    /\ [](last.op = "getLearningStats" => last.ret.totalLearningRecords = learnCalls)

C13_Witness ==
    /\ last.op = "getLearningStats"
    /\ learnCalls = 3
    /\ learningHistory[1].type = "supervised" /\ "priority" \in DOMAIN learningHistory[1]
    /\ learningHistory[2].type = "behavioral"
    /\ learningHistory[3].type = "personalization"
    /\ Len(atoms) < 3

\* The priority the feedback should give its record.
PriorityOf(feedback) ==
    IF feedback.rating <= 2 \/ feedback.helpful = FALSE THEN "high"
    ELSE IF feedback.rating = 3 THEN "medium"
    ELSE "low"

\* C14: the record learnFromFeedback appends has type supervised and
\* priority high when the rating is at most 2 or the feedback is not
\* helpful, otherwise medium when the rating is 3, otherwise low.
C14_FeedbackPriority ==
    last.op = "learnFromFeedback" =>
        LET record == learningHistory[Len(learningHistory)]
        IN  /\ record.type = "supervised"
            /\ record.priority = PriorityOf(last.arg.feedback)

\* The strategy stored for the user and the task of the context, if any.
StrategyKeyOf(context) == strategyIdOf(context.userId, domainOf(context))

\* Every stored effectiveness lies in [0, 1].
EffectivenessInRange ==
    \A i \in 1..Len(adaptationStrategies) :
        /\ adaptationStrategies[i].val.effectiveness >= 0
        /\ adaptationStrategies[i].val.effectiveness <= 1000

\* C15: learnFromFeedback for a user and task that have a strategy moves
\* its effectiveness e to min(1, e + 0.1) when the feedback is helpful and to
\* max(0, e - 0.1) when it is not, and changes no other strategy; every
\* effectiveness stays in [0, 1].
C15_FeedbackNudgesEffectiveness ==
    /\ [][ (/\ last'.op = "learnFromFeedback"
            /\ HasText(last'.arg.context, "userId")
            /\ MapHas(adaptationStrategies, StrategyKeyOf(last'.arg.context)))
           => LET key == StrategyKeyOf(last'.arg.context)
                  e == MapGet(adaptationStrategies, key).effectiveness
                  after == MapGet(adaptationStrategies', key).effectiveness
              IN  /\ MapHas(adaptationStrategies', key)
                  /\ last'.arg.feedback.helpful => after = (IF e + 100 > 1000 THEN 1000 ELSE e + 100)
                  /\ ~last'.arg.feedback.helpful => after = (IF e - 100 < 0 THEN 0 ELSE e - 100)
                  /\ MapKeys(adaptationStrategies') = MapKeys(adaptationStrategies)
                  /\ OthersUnchanged(adaptationStrategies, adaptationStrategies', key) ]_vars
    /\ []EffectivenessInRange

C15_Witness ==
    /\ last.op = "learnFromFeedback"
    /\ last.arg.feedback.helpful
    /\ Len(learningHistory) = 6
    /\ \A i \in 1..6 : learningHistory[i].feedback.helpful
    /\ Len(atoms) = 8
    /\ atoms[1].val.type = "AdaptationNode" /\ atoms[2].val.type = "AdaptationNode"
    /\ Len(adaptationStrategies) = 2
    /\ MapGet(adaptationStrategies, "dev_completion").effectiveness = 1000
    /\ MapGet(adaptationStrategies, "dev_general").effectiveness = 500

\* C16: strategies are keyed by the pair (userId, domain) and made only by
\* an adaptation request: every stored strategy is that of a pair an
\* adaptation was asked for, and getAdaptationStrategy(u, d) returns a
\* strategy exactly when one was asked for the pair (u, d), the strategy
\* returned having userId u and domain d.
C16_StrategiesKeyedByPair ==
    /\ \A i \in 1..Len(adaptationStrategies) :
          <<adaptationStrategies[i].val.userId, adaptationStrategies[i].val.domain>> \in adapted
    /\ last.op = "getAdaptationStrategy" =>
          /\ last.ret # << >> <=> <<last.arg.userId, last.arg.domain>> \in adapted
          /\ last.ret # << >> =>
                /\ last.ret[1].userId = last.arg.userId
                /\ last.ret[1].domain = last.arg.domain

\* The recommendations analyzeUserData computes.
RecommendationKeys == {"experienceLevel", "preferredWorkflow", "optimizationAreas"}

\* C17: adaptToUser(u, d, data) merges the recommendations into the strategy
\* when the history holds at least 10 records of user u; with fewer it
\* merges nothing and leaves the effectiveness as it was (0.5 for a new one).
C17_RecommendationsFromTenRecords ==
    [][ last'.op = "adaptToUser" =>
            LET key == strategyIdOf(last'.arg.userId, last'.arg.domain)
                n == Len(userHistoryOf(this, last'.arg.userId))
                after == MapGet(adaptationStrategies', key)
            IN  IF n >= 10
                THEN RecommendationKeys \subseteq DOMAIN after.strategy
                ELSE IF MapHas(adaptationStrategies, key)
                     THEN /\ after.strategy = MapGet(adaptationStrategies, key).strategy
                          /\ after.effectiveness = MapGet(adaptationStrategies, key).effectiveness
                     ELSE /\ DOMAIN after.strategy = {}
                          /\ after.effectiveness = 500 ]_vars

\* The patterns stored for the user under the action (none, or one).
StoredPatterns(table, userId, action) ==
    IF MapHas(table, userId)
    THEN SelectSeq(MapGet(table, userId), LAMBDA p : p.pattern = action)
    ELSE << >>

\* C18: a call learnUserBehavior(u, a, ctx) counts once: the first call
\* leaves the pattern (u, a) with frequency 1, each later call raises its
\* frequency by exactly 1 and its confidence by 0.01, capped at 1.
C18_BehaviorCountsOnce ==
    [][ last'.op = "learnUserBehavior" =>
            LET before == StoredPatterns(userBehaviorPatterns, last'.arg.userId,
                                         last'.arg.input.action)
                after == StoredPatterns(userBehaviorPatterns', last'.arg.userId,
                                        last'.arg.input.action)
            IN  /\ Len(after) = 1
                /\ IF before = << >>
                   THEN after[1].frequency = 1
                   ELSE /\ after[1].frequency = before[1].frequency + 1
                        /\ after[1].confidence = Min(1000, before[1].confidence + 10) ]_vars

\* C19: a further call learnUserBehavior(u, a, ctx) strictly increases the
\* frequency of the stored pattern (u, a) and does not decrease its
\* confidence; no step removes a pattern or lowers its frequency or confidence.
C19_BehaviorPatternsGrow ==
    [][ /\ \A i \in 1..Len(userBehaviorPatterns) :
              LET userId == userBehaviorPatterns[i].key
                  patterns == userBehaviorPatterns[i].val
              IN  \A j \in 1..Len(patterns) :
                      LET after == StoredPatterns(userBehaviorPatterns', userId,
                                                  patterns[j].pattern)
                      IN  /\ Len(after) = 1
                          /\ after[1].frequency >= patterns[j].frequency
                          /\ after[1].confidence >= patterns[j].confidence
        /\ last'.op = "learnUserBehavior" =>
              LET before == StoredPatterns(userBehaviorPatterns, last'.arg.userId,
                                           last'.arg.input.action)
                  after == StoredPatterns(userBehaviorPatterns', last'.arg.userId,
                                          last'.arg.input.action)
              IN  before # << >> =>
                      /\ after[1].frequency > before[1].frequency
                      /\ after[1].confidence >= before[1].confidence ]_vars

C19_Witness ==
    /\ last.op = "learnUserBehavior"
    /\ last.hit
    /\ Len(patternsOf(this, "dev")) >= 2
    /\ \E j \in 1..Len(patternsOf(this, "dev")) :
          /\ patternsOf(this, "dev")[j].pattern = last.arg.input.action
          /\ patternsOf(this, "dev")[j].frequency >= 4

\* The share of context keys whose values match between the stored and the
\* queried context, as [num, den]: the keys that both have with equal
\* values, over the number of keys of the larger context.
MatchingShare(stored, queried) ==
    LET matching == {key \in DOMAIN stored \cap DOMAIN queried : stored[key] = queried[key]}
        size == IF Cardinality(DOMAIN stored) >= Cardinality(DOMAIN queried)
                THEN Cardinality(DOMAIN stored) ELSE Cardinality(DOMAIN queried)
    IN  IF size = 0 THEN [num |-> 0, den |-> 1] ELSE [num |-> Cardinality(matching), den |-> size]

\* The share of the pattern for the query; 0 when either context is undefined.
ShareOf(p, holder) ==
    IF "context" \in DOMAIN p /\ "context" \in DOMAIN holder
    THEN MatchingShare(p.context, holder.context)
    ELSE [num |-> 0, den |-> 1]

\* The pattern is a candidate for the query: its share is above 0.5.
IsCandidate(p, holder) == 2 * ShareOf(p, holder).num > ShareOf(p, holder).den

\* The prediction is the one of the pattern: confidence = share x pattern.confidence.
PredictionOf(prediction, p, holder) ==
    /\ prediction.action = p.pattern
    /\ prediction.confidence.num * ShareOf(p, holder).den
          = ShareOf(p, holder).num * p.confidence * prediction.confidence.den

\* C20: predictUserAction(u, ctx) returns at most 5 predictions in
\* non-increasing order of confidence; each is that of a candidate pattern
\* of u (share above 0.5) with confidence = share x pattern.confidence; no
\* candidate left out has a higher confidence than one returned, and none is
\* left out while fewer than 5 are returned; the call changes no stored state.
C20_PredictionsTopFive ==
    /\ [](last.op = "predictUserAction" =>
            LET patterns == patternsOf(this, last.arg.userId)
                holder == last.arg.holder
                ret == last.ret
                candidates == {i \in 1..Len(patterns) : IsCandidate(patterns[i], holder)}
                returned == {i \in candidates :
                                \E k \in 1..Len(ret) : ret[k].action = patterns[i].pattern}
            IN  /\ Len(ret) <= 5
                /\ \A k \in 1..(Len(ret) - 1) :
                      ret[k].confidence.num * ret[k + 1].confidence.den
                          >= ret[k + 1].confidence.num * ret[k].confidence.den
                /\ \A k \in 1..Len(ret) :
                      \E i \in candidates : PredictionOf(ret[k], patterns[i], holder)
                /\ \A k, l \in 1..Len(ret) : k # l => ret[k].action # ret[l].action
                /\ Cardinality(returned) = Min(5, Cardinality(candidates))
                /\ \A i \in candidates \ returned : \A k \in 1..Len(ret) :
                      ret[k].confidence.num * ShareOf(patterns[i], holder).den
                          >= ShareOf(patterns[i], holder).num * patterns[i].confidence
                                 * ret[k].confidence.den)
    /\ [][last'.op = "predictUserAction" => UNCHANGED <<storeVars, learnVars>>]_vars

C20_Witness ==
    /\ last.op = "predictUserAction"
    /\ Len(last.ret) = 5
    /\ Len(patternsOf(this, "dev")) = 7
    /\ last.ret[1].action # "open_file"
    /\ last.ret[1].confidence.num * last.ret[5].confidence.den
          > last.ret[5].confidence.num * last.ret[1].confidence.den
    /\ \E k \in 1..5 : last.ret[k].confidence.den = 3 /\ last.ret[k].confidence.num = 2 * 510

----------------------------------------------------------------------------
\* Properties of the learning models

\* The ids of the model objects a table holds.
StoredModelIds(models) == {models[i].val.id : i \in 1..Len(models)}

\* The number n of the id `model_${n}`.
modelNumber(id) == CHOOSE n \in 0..(MaxModels + 1) : id = "model_" \o ToString(n)

\* C21: createLearningModel returns a model of version 1 with no training
\* data whose id no earlier model has and whose number is above the number of
\* every earlier model; the model is stored under that id. Whatever the
\* operation, clearAtomSpace included, the counter never goes back, no model
\* leaves the table, and a model that enters it is numbered above the others.
C21_FreshModelIds ==
    [][ /\ nextModelId' >= nextModelId
        /\ StoredModelIds(learningModels) \subseteq StoredModelIds(learningModels')
        /\ \A id \in StoredModelIds(learningModels') \ StoredModelIds(learningModels) :
              \A old \in StoredModelIds(learningModels) : modelNumber(id) > modelNumber(old)
        /\ (last'.op = "createLearningModel" /\ last' # last) =>
              /\ last'.ret.version = 1
              /\ last'.ret.trainingData = << >>
              /\ last'.ret.id \notin StoredModelIds(learningModels)
              /\ \A old \in StoredModelIds(learningModels) :
                    modelNumber(last'.ret.id) > modelNumber(old)
              /\ MapHas(learningModels', last'.ret.id)
              /\ MapGet(learningModels', last'.ret.id) = last'.ret
      ]_vars

\* A second model is made after the store was cleared: the atom of the first
\* model is gone, the first model is not.
C21_Witness ==
    /\ last.op = "createLearningModel"
    /\ last.ret.id = "model_2"
    /\ MapHas(learningModels, "model_1")
    /\ Len(atoms) = 1

\* The successful updateLearningModel calls the history counts for a model.
RetrainsIn(counts, id) == IF id \in DOMAIN counts THEN counts[id] ELSE 0

\* The step is a successful updateLearningModel call.
Retrains == last'.op = "updateLearningModel" /\ last'.hit /\ last' # last

\* C22: every stored model has version 1 plus the number of successful
\* updateLearningModel calls on it. A successful call raises the version of
\* its model by exactly 1 and leaves the model's training data followed by
\* the records given; any other step, and the call for any other model,
\* leaves version and training data as they were.
C22_VersionCountsRetrains ==
    [][ /\ \A i \in 1..Len(learningModels') :
              learningModels'[i].val.version
                  = 1 + RetrainsIn(retrained', learningModels'[i].val.id)
        /\ \A i \in 1..Len(learningModels) :
              LET old == learningModels[i].val
                  new == MapGet(learningModels', learningModels[i].key)
                  target == Retrains /\ MapGet(learningModels, last'.arg.modelId).id = old.id
              IN  /\ new.id = old.id
                  /\ target => /\ new.version = old.version + 1
                               /\ new.trainingData = old.trainingData \o last'.arg.trainingData
                  /\ ~target => /\ new.version = old.version
                                /\ new.trainingData = old.trainingData
      ]_vars

\* The model of a user is retrained for the second time, under its second
\* key, and holds the records of both calls.
C22_Witness ==
    /\ last.op = "updateLearningModel"
    /\ last.hit
    /\ last.arg.modelId = "user_dev_supervised"
    /\ last.ret.result.version = 3
    /\ Len(last.ret.result.trainingData) = 3
    /\ MapGet(learningModels, last.ret.result.id).version = 3

\* The share of helpful feedback among the records that carry feedback, in
\* thousandths; 0.5 when none of the records carries feedback.
HelpfulShare(records) ==
    LET carrying == {i \in 1..Len(records) : "feedback" \in DOMAIN records[i]}
        helpful == {i \in carrying : records[i].feedback.helpful}
    IN  IF carrying = {} THEN 500
        ELSE (Cardinality(helpful) * 1000) \div Cardinality(carrying)

\* C23: after a successful updateLearningModel the accuracy of the model is
\* the share of helpful feedback among the records the call appended that
\* carry feedback, 0.5 when none does; it lies in [0,1], and the confidence is
\* min(0.9, accuracy + 0.1).
C23_AccuracyOfAppendedRecords ==
    [][ Retrains =>
           /\ last'.ret.result.accuracy = HelpfulShare(last'.arg.trainingData)
           /\ last'.ret.result.accuracy \in 0..1000
           /\ last'.ret.result.confidence = Min(900, last'.ret.result.accuracy + 100)
      ]_vars

\* What the code computes: the share over all the training data of the model.
AccuracyOfAllRecords ==
    [][ Retrains =>
           /\ last'.ret.result.accuracy = HelpfulShare(last'.ret.result.trainingData)
           /\ last'.ret.result.accuracy \in 0..1000
           /\ last'.ret.result.confidence = Min(900, last'.ret.result.accuracy + 100)
      ]_vars

\* C24: updateLearningModel with an id under which no model is stored throws
\* `Learning model <id> not found` and leaves the service as it was: the
\* table of models, every model in it, the counter and all the rest.
C24_UnknownModelThrows ==
    [][ (/\ last'.op = "updateLearningModel"
         /\ last' # last
         /\ ~MapHas(learningModels, last'.arg.modelId))
        => /\ last'.ret = [threw |-> TRUE,
                           message |-> "Learning model " \o last'.arg.modelId
                                          \o " not found"]
           /\ learningModels' = learningModels
           /\ UNCHANGED <<storeVars, learnVars>>
      ]_vars

\* The call failed for model_2 while model_1 is stored and was retrained.
C24_Witness ==
    /\ last.op = "updateLearningModel"
    /\ ~last.hit
    /\ last.ret.threw
    /\ last.arg.modelId = "model_2"
    /\ last.arg.trainingData # << >>
    /\ MapHas(learningModels, "model_1")
    /\ MapGet(learningModels, "model_1").version = 2
    /\ ~MapHas(learningModels, "model_2")

----------------------------------------------------------------------------
\* Properties of personalization

\* this.userPersonalization.get(userId) || {} of a table
StoredPreferences(table, userId) == IF MapHas(table, userId) THEN MapGet(table, userId) ELSE << >>

\* The users a personalization record of the history names.
Personalized ==
    {learningHistory[i].context.userId :
        i \in {j \in 1..Len(learningHistory) :
                  learningHistory[j].type = "personalization" /\ HasUserId(learningHistory[j])}}

\* C25: after personalize(u, p) the preferences stored for u, which are what
\* getPersonalization(u) returns, have the keys of p, the keys stored before
\* and lastUpdated: a key of p has the value of p, a key stored before that p
\* does not name keeps its value, lastUpdated is the instant of the call
\* (also when p or the stored map names it); the preferences of other users
\* stay. getPersonalization returns the stored map, and the empty map for a
\* user no personalization was recorded for.
C25_PersonalizeMerges ==
    [][ /\ (last'.op = "personalize" /\ learningHistory' # learningHistory) =>
              LET u == last'.arg.userId
                  p == last'.arg.preferences
                  old == StoredPreferences(userPersonalization, u)
                  new == StoredPreferences(userPersonalization', u)
              IN  /\ DOMAIN new = DOMAIN p \cup DOMAIN old \cup {"lastUpdated"}
                  /\ \A k \in DOMAIN p \ {"lastUpdated"} : new[k] = p[k]
                  /\ \A k \in DOMAIN old \ (DOMAIN p \cup {"lastUpdated"}) : new[k] = old[k]
                  /\ new.lastUpdated = DateNow
                  /\ \A other \in MapKeySet(userPersonalization) \ {u} :
                        StoredPreferences(userPersonalization', other)
                            = StoredPreferences(userPersonalization, other)
                  /\ MapKeySet(userPersonalization') = MapKeySet(userPersonalization) \cup {u}
        /\ last'.op = "getPersonalization" =>
              /\ last'.ret = StoredPreferences(userPersonalization, last'.arg)
              /\ last'.arg \notin Personalized => last'.ret = << >>
              /\ UNCHANGED userPersonalization
      ]_vars

\* A later personalize of a user kept the key of an earlier call and added
\* two more, while another user has preferences too.
C25_Witness ==
    /\ last.op = "personalize"
    /\ last.arg.userId = "dev"
    /\ last.arg.preferences = [theme |-> "light", font |-> "mono"]
    /\ DOMAIN StoredPreferences(userPersonalization, "dev")
          = {"theme", "font", "tabs", "lastUpdated"}
    /\ StoredPreferences(userPersonalization, "dev").theme = "light"
    /\ StoredPreferences(userPersonalization, "dev").tabs = 2
    /\ MapHas(userPersonalization, "ops")

----------------------------------------------------------------------------
\* Properties of learnFromFeedback under interleaving

\* The record of the call in flight is in the history, and the nudge of its
\* strategy, which exists, is still to come and will change the strategy.
AwaitsNudge(call) ==
    /\ call.record <= Len(learningHistory)
    /\ learningHistory[call.record].feedback = call.feedback
    /\ HasText(call.context, "userId")
    /\ MapHas(adaptationStrategies,
              strategyIdOf(call.context.userId, domainOf(call.context)))
    /\ updateAdaptationFromFeedbackIn(this, call.context.userId, call.feedback,
                                      call.context).adaptationStrategies
          # adaptationStrategies

\* C26: no operation runs in a state where a feedback record is in the
\* history and the nudge of the matching strategy is not yet made:
\* getAdaptationStrategy and getLearningStats never read such a state.
C26_FeedbackNudgeAtomic ==
    [][ (last'.op \in {"getAdaptationStrategy", "getLearningStats"} /\ last' # last)
        => ~\E i \in 1..Len(inFlight) : AwaitsNudge(inFlight[i])
      ]_vars

----------------------------------------------------------------------------
\* Properties of import

\* C27: after an import that raised no error every record of the blob is in
\* the store, under its id and with its content, so a blob of n records has
\* left a store of size n when the ids are distinct.
C27_ImportStoresEveryRecord ==
    (last.op = "import" /\ last.ret = "ok" /\ last.arg.value.t = "array") =>
        LET records == last.arg.value.a
        IN  /\ \A i \in 1..Len(records) :
                  /\ records[i].t = "object"
                  /\ "id" \in DOMAIN records[i].o
                  /\ MapHas(atoms, records[i].o.id)
            /\ Len(atoms) = Len(records)

----------------------------------------------------------------------------
\* Properties of pattern recognition and of reported confidences

\* The call returned patterns through the service with the pattern engine.
EngineRecognized == last.op = "recognizePatternsWithEngine" /\ ~last.ret.threw

PatternTag(p) ==
    IF "patternType" \in DOMAIN p.metadata THEN p.metadata.patternType ELSE p.pattern.type

\* C29: unless includeLowConfidence is set no returned pattern has a
\* confidence below minConfidence, below 0.1 when minConfidence is not given;
\* when patternTypes is given every returned pattern has one of its tags.
C29_PatternsFiltered ==
    (last.op \in {"recognizePatterns", "recognizePatternsWithEngine"} /\ ~last.ret.threw) =>
        LET input == last.arg.input
            patterns == last.ret.result
        IN  /\ ~optionOf(input, "includeLowConfidence", FALSE) =>
                  \A i \in 1..Len(patterns) :
                      patterns[i].confidence
                          >= optionOf(input, "minConfidence", DefaultMinConfidence)
            /\ ("options" \in DOMAIN input /\ "patternTypes" \in DOMAIN input.options) =>
                  \A i \in 1..Len(patterns) :
                      PatternTag(patterns[i]) \in input.options.patternTypes

\* The same of the service with the pattern engine alone.
EnginePatternsFiltered == EngineRecognized => C29_PatternsFiltered

\* C30: every confidence a caller is given lies in [0,1]: that of the result
\* of reason, of either service and for every query type, the hybrid mean and
\* code completion included, and that of every pattern recognizePatterns
\* returns, of either service.
C30_ConfidencesInUnitRange ==
    /\ last.op \in {"reason", "reasonWithEngines"} => last.ret.confidence \in 0..1000
    /\ (last.op \in {"recognizePatterns", "recognizePatternsWithEngine"} /\ ~last.ret.threw) =>
          \A i \in 1..Len(last.ret.result) : last.ret.result[i].confidence \in 0..1000

\* Hybrid reasoning returned the mean of the confidences of two engines.
C30_Witness ==
    /\ last.op = "reasonWithEngines"
    /\ IsHybrid(last.arg.query)
    /\ last.ret.confidence = 750
    /\ "metadata" \in DOMAIN last.ret
    /\ last.ret.metadata.engineCount = 2

\* The consecutive differences of the array are all d.
IsArithmetic(a, d) == Len(a) >= 2 /\ \A i \in 1..(Len(a) - 1) : a[i + 1] - a[i] = d

\* The returned patterns that are arithmetic sequences.
ArithmeticPatterns(patterns) ==
    {i \in 1..Len(patterns) : patterns[i].pattern.type = "arithmetic-sequence"}

\* C31: for an array of numbers whose consecutive differences are all d
\* recognizePatterns returns an arithmetic-sequence pattern with
\* commonDifference d and confidence above 0.5; for an array whose
\* differences are not all equal it returns no arithmetic-sequence pattern.
C31_ArithmeticSequenceFound ==
    last.op = "recognizePatterns" =>
        LET a == last.arg.input.data
            patterns == last.ret.result
        IN  IF \E d \in -2..2 : IsArithmetic(a, d)
            THEN \E i \in ArithmeticPatterns(patterns) :
                    /\ IsArithmetic(a, patterns[i].pattern.commonDifference)
                    /\ patterns[i].confidence > 500
            ELSE ArithmeticPatterns(patterns) = {}

\* C32: recognizePatterns raises no error, and for empty input the array it
\* returns is empty or holds only patterns of near-zero confidence, none
\* above the 0.1 under which results are dropped by default.
C32_RecognitionNeverFails ==
    last.op \in {"recognizePatterns", "recognizePatternsWithEngine"} =>
        /\ ~last.ret.threw
        /\ last.arg.input.data = "" =>
              \A i \in 1..Len(last.ret.result) :
                  last.ret.result[i].confidence <= DefaultMinConfidence

\* The same for the service of atomspace-service.ts alone.
BasicRecognitionOfEmptyInput == last.op = "recognizePatterns" => C32_RecognitionNeverFails

\* C33: after learn(data) the last LearningRecord a query returns is an atom
\* the call added, and its metadata holds data.type as learningType and
\* data.feedback as feedback.
C33_LearningRecordCarriesMetadata ==
    [][\A data \in LearnInputs : learn(data) =>
          LET records == queryResults(atoms', [type |-> "LearningRecord"])
              before == queryResults(atoms, [type |-> "LearningRecord"])
          IN  /\ Len(records) = Len(before) + 1
              /\ "metadata" \in DOMAIN records[Len(records)]
              /\ records[Len(records)].metadata.learningType = data.type
              /\ "feedback" \in DOMAIN data =>
                    records[Len(records)].metadata.feedback = data.feedback]_vars

\* The part of it that holds: each learn adds one LearningRecord.
LearnAddsOneRecord ==
    [][\A data \in LearnInputs : learn(data) =>
          Len(queryResults(atoms', [type |-> "LearningRecord"]))
              = Len(queryResults(atoms, [type |-> "LearningRecord"])) + 1]_vars

\* strength + 0.3 x confidence + 0.2 x context_relevance of the candidate's
\* own truth value, in units of 1/10000.
ScoreOfOwnTruthValue(suggestion, context) ==
    10 * suggestion.truthValue.strength + 3 * suggestion.truthValue.confidence
        + 2 * calculateContextRelevance(suggestion, context)

CompletionsRankedByCodeScore ==
    (/\ last.op = "reasonWithEngines"
     /\ last.arg.query.type = "code-completion"
     /\ "error" \notin DOMAIN last.ret.metadata) =>
        LET found == last.ret.conclusion
            context == contextOf(last.arg.query)
        IN  /\ Len(found) <= 10
            /\ \A i \in 1..Len(found) : \A j \in i..Len(found) :
                  calculateSuggestionScore(found[i], context)
                      >= calculateSuggestionScore(found[j], context)
            /\ last.ret.confidence = calculateCompletionConfidence(found)

\* The (user, action) pairs of the behaviour learned so far.
LearnedPairs ==
    {<<learningHistory[i].context.userId, learningHistory[i].input.action>> :
        i \in {j \in 1..Len(learningHistory) : learningHistory[j].type = "behavioral"}}

C36_ModelsKeyedByOwnId ==
    /\ \A i \in 1..Len(learningModels) : learningModels[i].val.id = learningModels[i].key
    /\ \A i, j \in 1..Len(learningModels) :
          learningModels[i].val.id = learningModels[j].val.id => i = j
    /\ Cardinality(DOMAIN getLearningStatsOf(this).modelAccuracy)
          = Cardinality({learningModels[i].val.id : i \in 1..Len(learningModels)})

\* What holds of it: the keys of the table are distinct, and every model
\* made by createLearningModel is also held under its own id.
ModelsListedUnderOwnId ==
    \A i \in 1..Len(learningModels) : MapHas(learningModels, learningModels[i].val.id)

\* C37: the accuracy of every learning model, when set, lies in [0, 1].
C37_AccuracyInUnitRange ==
    \A i \in 1..Len(learningModels) :
        "accuracy" \in DOMAIN learningModels[i].val =>
            /\ learningModels[i].val.accuracy >= 0
            /\ learningModels[i].val.accuracy <= 1000

\* What holds of it: no accuracy exceeds 1.
AccuracyAtMostOne ==
    \A i \in 1..Len(learningModels) :
        "accuracy" \in DOMAIN learningModels[i].val => learningModels[i].val.accuracy <= 1000

\* The ids of the models made for a user and a learning type.
ModelsOfUser(userId, type) ==
    {learningModels[i].val.id :
        i \in {j \in 1..Len(learningModels) :
                 /\ learningModels[j].val.type = "user_" \o type
                 /\ "userId" \in DOMAIN learningModels[j].val.parameters
                 /\ learningModels[j].val.parameters.userId = userId}}

\* C38: for each pair of a user and a learning type at most one per-user
\* model is ever made, also when learn calls for that user and type wait at
\* the awaits of updateUserModel and createLearningModel at one time.
C38_OneModelPerUserAndType ==
    \A type \in {"supervised", "reinforcement"} : Cardinality(ModelsOfUser("dev", type)) <= 1

\* What holds of it: learn calls that run one after the other make one model.
OneModelWhenCallsDoNotOverlap ==
    [][Len(inFlight) <= 1 /\ C38_OneModelPerUserAndType
          => \/ C38_OneModelPerUserAndType'
             \/ Len(inFlight') > 1]_vars

\* A step leaves what is stored for the users other than userId as it was:
\* their strategies, their pattern lists and their preferences.
OthersUntouched(userId) ==
    /\ \A i \in 1..Len(adaptationStrategies) :
          adaptationStrategies[i].val.userId # userId =>
              /\ MapHas(adaptationStrategies', adaptationStrategies[i].key)
              /\ MapGet(adaptationStrategies', adaptationStrategies[i].key)
                    = adaptationStrategies[i].val
    /\ \A i \in 1..Len(userBehaviorPatterns) :
          userBehaviorPatterns[i].key # userId =>
              /\ MapHas(userBehaviorPatterns', userBehaviorPatterns[i].key)
              /\ MapGet(userBehaviorPatterns', userBehaviorPatterns[i].key)
                    = userBehaviorPatterns[i].val
    /\ \A i \in 1..Len(userPersonalization) :
          userPersonalization[i].key # userId =>
              /\ MapHas(userPersonalization', userPersonalization[i].key)
              /\ MapGet(userPersonalization', userPersonalization[i].key)
                    = userPersonalization[i].val

\* C39: learnUserBehavior, personalize, learnFromFeedback and learn issued
\* for a user never change the behaviour patterns, the preferences or the
\* adaptation strategies stored for a different user.
C39_UsersIsolated ==
    [][ /\ \A userId \in UserInputs :
              /\ learnUserBehavior(userId, BehaviorInputs[1]) => OthersUntouched(userId)
              /\ personalize(userId, [theme |-> "light"]) => OthersUntouched(userId)
        /\ \A context \in IsolationContexts :
              /\ learnFromFeedback(thumbsDown, context) => OthersUntouched(context.userId)
              /\ learn([type |-> "adaptive", input |-> [code |-> "x"], context |-> context])
                    => OthersUntouched(context.userId)
      ]_vars

\* What holds of it: the pattern lists and the preferences of the others
\* stay as they were.
OthersKeepPatternsAndPreferences ==
    [][ /\ \A i \in 1..Len(userBehaviorPatterns) :
              \/ userBehaviorPatterns[i] = userBehaviorPatterns'[i]
              \/ /\ last'.op = "learnUserBehavior"
                 /\ userBehaviorPatterns[i].key = last'.arg.userId
        /\ \A i \in 1..Len(userPersonalization) :
              \/ userPersonalization[i] = userPersonalization'[i]
              \/ /\ last'.op = "personalize"
                 /\ userPersonalization[i].key = last'.arg.userId ]_vars

\* C40: each atom of the store is held under a key equal to its own id
\* field, and that id is not empty.
C40_AtomsKeyedByOwnId ==
    \A i \in 1..Len(atoms) :
        /\ "id" \in DOMAIN atoms[i].val
        /\ atoms[i].val.id = atoms[i].key
        /\ atoms[i].key # ""

\* An update that names another id has just changed an atom, in a store that
\* also holds an atom added without an id.
C40_Witness ==
    /\ last.op = "update"
    /\ last.ret
    /\ "id" \in DOMAIN last.arg.updates
    /\ last.arg.updates.id # last.arg.atomId
    /\ MapHas(atoms, last.arg.atomId)
    /\ \E i \in 1..Len(atoms) : atoms[i].key = generateAtomId(1)

====
